---- MODULE Spec2Model ----
(***************************************************************************)
(* Wiring and lifecycle kernel of digital-alchemy                          *)
(* (src/src/extensions/wiring.extension.ts).                               *)
(*                                                                         *)
(* The module-level ("semi-local") variables of the file are the state;    *)
(* every action is the synchronous stretch of code between two awaits of   *)
(* Bootstrap, Teardown, WireService and RunStageCallbacks, or one call of  *)
(* a lifecycle attach function.  Service factories and lifecycle callbacks *)
(* are user code: they may suspend, so their invocation and their          *)
(* resolution are separate steps, and they may attach callbacks while they *)
(* run.  exit() ends the process: nothing happens afterwards.              *)
(***************************************************************************)
EXTENDS Integers, Sequences, FiniteSets, TLC

\* ------------------------------------------------------------------ bounds
\* callbacks attached during one life of the process
MaxCallbacks == 2

\* calls of application.bootstrap() and application.teardown() during one life
\* of the process
MaxCalls == 3

\* the same two budgets where the other one is explored: calls in the
\* behaviours that explore callbacks, callbacks in those that explore calls
FewCalls == 2
FewCallbacks == 1

\* libraries in the libraries list of the application whose list varies
MaxLibs == 2

\* schedules created through scheduler.cron, .interval and .sliding, and
\* invocations of an exec by a timer, during one life of the process
MaxSchedules == 1
MaxExecs == 2

\* entries in the priorityInit of the library whose priorityInit varies
MaxPriority == 2

\* calls of CreateLibrary and CreateApplication with options of any kind
MaxDefinitions == 1

\* watchers registered with configuration.onUpdate
MaxWatchers == 2

\* calls of configure and setServer of the server bindings
MaxServerCalls == 2

\* switches on the command line, and variables in the environment, that
\* ConfigLoaderEnvironment looks through
MaxCandidates == 2

\* --------------------------------------------------------------- constants
NONE == -1
UP == 1
DOWN == -1

LIFECYCLE_STAGES ==
  <<"PreInit", "PostConfig", "Bootstrap", "Ready", "ShutdownStart", "ShutdownComplete">>

Stages == {LIFECYCLE_STAGES[i] : i \in 1..Len(LIFECYCLE_STAGES)}

\* the stages for which a late attach is deferred instead of dropped
DeferredStages == {"PreInit", "PostConfig", "Bootstrap", "Ready"}

\* the stages Bootstrap runs, in the order of its RunStageCallbacks calls
BootStages == <<"PreInit", "PostConfig", "Bootstrap", "Ready">>

\* the stages Teardown runs, in the order of its RunStageCallbacks calls
TeardownStages == <<"ShutdownStart", "ShutdownComplete">>

\* priorities a caller passes to an attach function (NONE: none given)
Priorities == {NONE, 1, 2}

\* ------------------------------------------------- the definitions in use
\* Two applications made with CreateApplication and one library made with
\* CreateLibrary; "boilerplate" is the library CreateBoilerplate builds.
Apps == {"A", "B"}
Libs == {"lib"}

\* A third application, "P", whose libraries list and whose libraries' depends
\* differ from behaviour to behaviour (the variable plan); its libraries are
\* taken from PlanLibs, libraries made with CreateLibrary named as they are
\* called here.
PlanApp == "P"
PlanLibs == {"p", "q", "config"}
AllApps == Apps \cup {PlanApp}
Modules == {"boilerplate"} \cup Libs \cup PlanLibs \cup AllApps

ModName(m) ==
  CASE m = "A" -> "app"
    [] m = "B" -> "application"
    [] m = "P" -> "planned"
    [] OTHER -> m

\* Object.keys(services)
ModServices(m) ==
  CASE m = "boilerplate" -> <<"cache", "configuration", "fetch", "logger", "scheduler">>
    [] m = "lib" -> <<"l1">>
    [] m = "p" -> <<"p1", "p2">>
    [] m = "A" -> <<"s1", "s2">>
    [] OTHER -> <<"s1">>

Range(s) == {s[i] : i \in 1..Len(s)}

IsUnique(s) == \A i, j \in 1..Len(s) : s[i] = s[j] => i = j

SelectSeqBy(s, keep) ==
  LET F[i \in 0..Len(s)] ==
        IF i = 0 THEN <<>>
        ELSE IF s[i] \in keep THEN Append(F[i - 1], s[i]) ELSE F[i - 1]
  IN F[Len(s)]

\* every (project, service) of every definition
AllServices == UNION {{<<ModName(m), s>> : s \in Range(ModServices(m))} : m \in Modules}

\* the keys WireService sets in the parameter bundle itself, after the spread
\* of the loaded modules
ParamKeys ==
  {"cache", "config", "context", "event", "internal", "lifecycle", "logger", "scheduler"}

\* a lifecycle object: the one made by CreateLibrary / CreateApplication for
\* a definition (gen 0), or by the gen-th CreateBoilerplate call
Lifecycle(m, g) == [owner |-> m, gen |-> g]

EmptyCallbacks == [s \in Stages |-> <<>>]

\* ------------------------------------------------------------------- state
VARIABLES
  proc,                         \* "running", or "exited" once exit() was called
  exitCause,                    \* the error or signal that led to exit(), "" if none
  exitStatus,                   \* the status the process exited with, once it has exited
  fatalLog,                     \* what was logged with logger.fatal
  errorLog,                     \* what was logged with logger.error or console.error
  thrown,                       \* <<application, code>> thrown to a caller
  completedLifecycleCallbacks,  \* set of stage names
  MODULE_MAPPINGS,              \* set of <<project, service>>
  LOADED_MODULES,               \* keys: the projects; apis: <<project, service>> resolved
  LOADED_LIFECYCLES,            \* insertion-ordered map: Seq of [name, lc]
  ACTIVE_APPLICATION,           \* an application, or "none"
  internal,                     \* the InternalDefinition in use
  LIB_BOILERPLATE,              \* number of the CreateBoilerplate call in use
  logger,                       \* whether the module-level logger is defined
  processListeners,             \* listeners on SIGTERM / SIGINT
  booted,                       \* application.booted
  childCallbacks,               \* lifecycle -> stage -> Seq of <<callback, priority>>
  immediates,                   \* the setImmediate queue
  boot,                         \* the Bootstrap call in flight
  td,                           \* the Teardown calls in flight
  runs,                         \* the RunStageCallbacks call of each task
  running,                      \* invoked callbacks whose promise is pending
  registered,                   \* history: what every attach call was given, what it did
                                \* (how), whether the stage was recorded as begun (late)
                                \* and whether its run had not returned yet (open)
  started,                      \* history: invocations of each callback
  resolved,                     \* history: resolutions of each callback
  factoryCalls,                 \* history: invocations of each service factory
  finishedStages,               \* history: stages whose run has returned
  calls,                        \* history: number of bootstrap() and teardown() calls
  loaders,                      \* history: whether INITIALIZE of this bootstrap has been
                                \* called ("called": the loaders run) and has resolved ("done")
  wiredLog,                     \* history: each factory invocation, with what was loaded
                                \* and what its parameter bundle exposed
  scenario,                     \* what the code around the kernel does in this behaviour
  plan,                         \* libraries of application P, depends of each of them and
                                \* how they were given, and whether P declares a required
                                \* configuration key
  schedules,                    \* the schedules created, in order: the variables in the
                                \* closure of each (cronJob, runningInterval, timeout), the
                                \* one-shot timers it has pending, where its onReady
                                \* callback is, and its history
  stop,                         \* the stop set of Scheduler: the schedules whose
                                \* stopFunction it holds
  phase,                        \* where the lifecycle of boilerplate is
  execs,                        \* history: number of invocations of an exec
  uncaught,                     \* whether a failure of an exec reached the timer runtime
  definitions,                  \* history: each CreateLibrary / CreateApplication call made
                                \* with options of any kind: the options, what it threw
                                \* and whether it returned a definition
  configuration,                \* ResolvedConfig: (module, key) -> value; the value names the
                                \* source it came from, "undeclared" before LOAD_PROJECT
  supplied,                     \* what this behaviour's sources supply: source -> set of
                                \* (module, key)
  configured,                   \* how many of ConfigSteps Bootstrap has gone through
  watchers,                     \* the watchers registered with onUpdate, in order: the
                                \* filter of each
  lastSet,                      \* history: the last call of set: its arguments, whether it
                                \* threw, what get returned after it, and the watchers it
                                \* invoked, in order, each with what get returned to it
  httpServer,                   \* Server_Bindings: the server, "undefined" before there is one
  extraOptions,                 \* Server_Bindings: the options given to configure
  port,                         \* Server_Bindings: the PORT read at PostConfig
  outObject,                    \* Server_Bindings: out, the object the service returns
  serverPhase,                  \* the last stage whose callback of Server_Bindings has run
  serverLog,                    \* history: the calls of configure and setServer, in order,
                                \* the server that listens and the server that was closed
  switchKeys,                   \* ConfigLoaderEnvironment: Object.keys(minimist(process.argv))
  environmentKeys,              \* ConfigLoaderEnvironment: Object.keys(process.env)
  environmentOut,               \* what ConfigLoaderEnvironment has set for the key: the
                                \* source and the name of the candidate whose value it took
  sliding                       \* the sliding schedule of ZCC_Scheduler: the variables of its
                                \* closure (cronJob, timeout), its one-shot timers pending,
                                \* whether stop holds its stopFunction, where its onReady
                                \* callback is, where the lifecycle is, and its history

procVars == <<proc, exitCause, exitStatus, fatalLog, errorLog, thrown>>
wiringVars == <<MODULE_MAPPINGS, LOADED_MODULES, LOADED_LIFECYCLES, internal,
                LIB_BOILERPLATE, logger, processListeners>>
appVars == <<ACTIVE_APPLICATION, booted, completedLifecycleCallbacks>>
cbVars == <<childCallbacks, immediates, registered>>
taskVars == <<boot, td, runs, running>>
histVars == <<started, resolved, factoryCalls, finishedStages, calls, wiredLog, loaders>>
kernelVars == <<procVars, wiringVars, appVars, cbVars, taskVars, histVars>>
schedVars == <<schedules, stop, phase, execs, uncaught>>
creatorVars == <<definitions>>
configVars == <<configuration, supplied, configured, watchers, lastSet>>
serverVars == <<httpServer, extraOptions, port, outObject, serverPhase, serverLog>>
slidingVars == <<sliding>>
loaderVars == <<switchKeys, environmentKeys, environmentOut>>
vars == <<kernelVars, scenario, plan, schedVars, creatorVars, configVars, serverVars, slidingVars,
          loaderVars>>

\* application.libraries
AppLibraries(a) ==
  CASE a = "A" -> <<"lib">>
    [] a = PlanApp -> plan.libraries
    [] OTHER -> <<>>

\* library.depends, by name.  CreateLibrary takes name, configuration,
\* priorityInit and services from its options and builds the definition from
\* them: a depends given as an option is not in the definition; one assigned
\* to the depends property of the definition is.
LibDepends(l) == IF l \in PlanLibs /\ plan.given = "property" THEN plan.depends[l] ELSE {}

\* the priorityInit of a definition; the one of library p differs from
\* behaviour to behaviour
ModPriorityInit(m) ==
  CASE m = "boilerplate" -> <<"configuration", "logger">>
    [] m = "A" -> <<"s2">>
    [] m = "p" -> plan.priorityInit
    [] OTHER -> <<>>

\* every (project, service) a bootstrap of application a wires
PlanServices(a) ==
  UNION {{<<ModName(m), s>> : s \in Range(ModServices(m))} :
           m \in {"boilerplate", a} \cup Range(AppLibraries(a))}

TdTasks == {"td1", "td2"}

\* the keys of processEvents
Signals == {"SIGTERM", "SIGINT"}
Tasks == {"boot"} \cup TdTasks

IdleRun ==
  [pc |-> "off", stage |-> "none", list |-> <<>>, i |-> 0,
   sorted |-> <<>>, quick |-> {}, cur |-> 0, pending |-> {}]

IdleBoot ==
  [pc |-> "idle", app |-> "none", mods |-> <<>>, mod |-> "none",
   rest |-> <<>>, svc |-> "none", stage |-> 0]

IdleTd == [pc |-> "idle", app |-> "none", stage |-> 0]

\* The user code of a behaviour attaches its callbacks to one stage (one of
\* focus), attaches at most scenario.callbacks of them and calls bootstrap() and
\* teardown() at most scenario.calls times, on the applications scenario.apps.
\* Without scenario.misuse it calls bootstrap() only while no bootstrap is in
\* flight and no application is booted, and teardown() only on a booted one.
Scenarios(focus, callbacks, callsAllowed, apps, misuse) ==
  [focus : focus, callbacks : {callbacks}, calls : {callsAllowed}, apps : apps,
   misuse : {misuse}]

\* CreateLibrary and CreateApplication have been called for the modules mods:
\* each definition has its lifecycle, no callback is attached
NoCallbacks(mods) ==
  childCallbacks = [lc \in {Lifecycle(m, 0) : m \in mods} |-> EmptyCallbacks]

\* no reset tick has run
NoWait == [warned |-> FALSE, pending |-> FALSE, next |-> "none", past |-> FALSE]

InitKernel ==
  /\ proc = "running"
  /\ exitCause = ""
  /\ exitStatus = 0
  /\ fatalLog = {}
  /\ errorLog = {}
  /\ thrown = {}
  /\ completedLifecycleCallbacks = {}
  /\ MODULE_MAPPINGS = {}
  /\ LOADED_MODULES = [keys |-> {}, apis |-> {}]
  /\ LOADED_LIFECYCLES = <<>>
  /\ ACTIVE_APPLICATION = "none"
  /\ internal = [gen |-> 0, application |-> "none", wired |-> FALSE]
  /\ LIB_BOILERPLATE = 0
  /\ logger = FALSE
  /\ processListeners = 0
  /\ booted = [a \in AllApps |-> FALSE]
  /\ immediates = <<>>
  /\ boot = IdleBoot
  /\ td = [t \in TdTasks |-> IdleTd]
  /\ runs = [t \in Tasks |-> IdleRun]
  /\ running = {}
  /\ registered = <<>>
  /\ started = [c \in 1..(MaxCallbacks + FewCallbacks) |-> 0]
  /\ resolved = [c \in 1..(MaxCallbacks + FewCallbacks) |-> 0]
  /\ factoryCalls = [s \in AllServices |-> 0]
  /\ finishedStages = {}
  /\ calls = 0
  /\ wiredLog = <<>>
  /\ loaders = "idle"
  /\ definitions = <<>>
  /\ httpServer = "undefined"
  /\ extraOptions = "undefined"
  /\ port = 0
  /\ outObject = [httpServer |-> "undefined"]
  /\ serverPhase = "constructed"
  /\ serverLog = [calls |-> <<>>, listening |-> "none", closed |-> "none"]
  /\ sliding = [cronJob |-> "none", timeout |-> "undefined", timers |-> 0, inStop |-> FALSE,
                onReady |-> "none", phase |-> "wiring", fired |-> 0,
                last |-> NoWait]

\* Scheduler has been called, no schedule is created
NoSchedules ==
  /\ schedules = <<>>
  /\ stop = {}
  /\ phase = "wiring"
  /\ execs = 0
  /\ uncaught = FALSE

\* the (module, key) pairs the modules declare: CONFIG and LOG_LEVEL of
\* boilerplate, CONFIG of application A, REQUIRED_CONFIG of application P
ConfigKeys ==
  {<<"boilerplate", "CONFIG">>, <<"boilerplate", "LOG_LEVEL">>, <<"app", "CONFIG">>,
   <<"planned", "REQUIRED_CONFIG">>}

\* the keys declared with required: true
RequiredKeys == {<<"planned", "REQUIRED_CONFIG">>}

\* the keys this model lets the sources supply
SuppliedKeys == {<<"boilerplate", "LOG_LEVEL">>, <<"app", "CONFIG">>}

\* what Bootstrap does to the configuration, in its order: LOAD_PROJECT of
\* boilerplate and of the application, merge of the bootstrap options, and
\* INITIALIZE with its loaders, file, environment, CLI switches
ConfigSteps == <<"boilerplate", "app", "bootstrap", "file", "env", "cli">>

Loaders == {"file", "env", "cli"}

\* the default of a declared key: CONFIG of boilerplate and REQUIRED_CONFIG
\* have none
Default(k) ==
  IF k \in {<<"boilerplate", "CONFIG">>, <<"planned", "REQUIRED_CONFIG">>}
  THEN "undefined" ELSE "default"

\* the configuration option of a definition: the keys it declares.
\* Application P declares REQUIRED_CONFIG in the behaviours where plan says so.
ModConfiguration(m) ==
  CASE m = "boilerplate" -> {<<"boilerplate", "CONFIG">>, <<"boilerplate", "LOG_LEVEL">>}
    [] m = "A" -> {<<"app", "CONFIG">>}
    [] m = PlanApp -> IF plan.required THEN {<<"planned", "REQUIRED_CONFIG">>} ELSE {}
    [] OTHER -> {}

\* LOAD_PROJECT(module, schema): the keys of the module with their defaults
LOAD_PROJECT(conf, module) ==
  [k \in ConfigKeys |-> IF k[1] = module THEN Default(k) ELSE conf[k]]

\* merge of a partial configuration: its values replace the ones they meet
merge(conf, partial, source) ==
  [k \in ConfigKeys |-> IF k \in partial THEN source ELSE conf[k]]

\* INITIALIZE runs the loaders, file, environment, CLI switches, and merges
\* what each of them produces
INITIALIZE(conf, sources) ==
  merge(merge(merge(conf, sources["file"], "file"), sources["env"], "env"), sources["cli"], "cli")

\* the required keys that are declared and have no value
validateConfig(conf) == {k \in RequiredKeys : conf[k] = "undefined"}

NoSet == [args |-> <<>>, threw |-> FALSE, got |-> "", watching |-> 0, invoked |-> <<>>]

\* ----------------------------------------------- ConfigLoaderEnvironment
\* ConfigLoaderEnvironment (src/unnamed/part_001) for one key, PORT of the
\* library lib.  A candidate is a switch or an environment variable; its value
\* is told by its name.
\* the names of the candidates: the key, the key in another case, the key
\* with the prefix of the library, the same in another form, and another name
CandidateNames == {"PORT", "port", "libs_lib_PORT", "LIBS-LIB-port", "OTHER"}

\* search = [noAppPath, key]
search == <<"libs_lib_PORT", "PORT">>

\* a name as the expression of the loader reads it: without regard to letter
\* case, each - or _ of the line being optional and either character
Folded(name) ==
  CASE name \in {"PORT", "port"} -> "port"
    [] name \in {"libs_lib_PORT", "LIBS-LIB-port"} -> "libslibport"
    [] OTHER -> "other"

\* item.match(new RegExp(`^${line.replaceAll(/[-_]/gi, "[-_]?")}$`, "gi"))
LineMatches(line, item) == Folded(line) = Folded(item)

\* Array.prototype.find: the first element of list in test, or "undefined"
Find(list, test) ==
  IF \E i \in 1..Len(list) : list[i] \in test
  THEN list[CHOOSE i \in 1..Len(list) : list[i] \in test /\ \A j \in 1..(i - 1) : list[j] \notin test]
  ELSE "undefined"

\* the line of search found for a list of keys: an exact match first, else a
\* match of the expression
FoundLine(keys) ==
  LET exact == Find(search, Range(keys))
  IN IF exact # "undefined" THEN exact
     ELSE Find(search, {line \in Range(search) : \E item \in Range(keys) : LineMatches(line, item)})

\* the key whose value is taken: the first of the keys that matches the
\* expression of a line of search
TakenKey(keys) ==
  Find(keys, {key \in Range(keys) : \E line \in Range(search) : LineMatches(line, key)})

\* the body of the loop for one key: a switch if one is found, else an
\* environment variable, else nothing
ConfigLoaderEnvironment(switches, environment) ==
  IF FoundLine(switches) # "undefined"
  THEN [source |-> "cli", name |-> TakenKey(switches)]
  ELSE IF FoundLine(environment) = "undefined"
       THEN [source |-> "none", name |-> "undefined"]
       ELSE [source |-> "env", name |-> TakenKey(environment)]

\* the loader runs
LoadEnvironment ==
  /\ environmentOut = [source |-> "unloaded", name |-> "undefined"]
  /\ environmentOut' = ConfigLoaderEnvironment(switchKeys, environmentKeys)
  /\ UNCHANGED <<switchKeys, environmentKeys>>

NextEnvironment ==
  LoadEnvironment /\ UNCHANGED <<kernelVars, scenario, plan, schedVars, creatorVars, configVars, serverVars,
                                 slidingVars>>

\* the command line and the environment hold no candidate
NoCandidates ==
  /\ switchKeys = <<>>
  /\ environmentKeys = <<>>
  /\ environmentOut = [source |-> "unloaded", name |-> "undefined"]

\* no module is declared, no source supplies anything, no watcher is registered
NoConfiguration ==
  /\ NoCandidates
  /\ configuration = [k \in ConfigKeys |-> "undeclared"]
  /\ supplied = [src \in Loaders \cup {"bootstrap"} |-> {}]
  /\ configured = 0
  /\ watchers = <<>>
  /\ lastSet = NoSet

\* application P without libraries
NoPlan ==
  [libraries |-> <<>>, depends |-> [l \in PlanLibs |-> {}], given |-> "option",
   priorityInit |-> <<>>, required |-> FALSE]

\* the libraries lists of at most MaxLibs of the libraries of PlanLibs, no
\* library twice, each library of the list with any depends, given as the
\* depends option of CreateLibrary or assigned to the definition it returned
Plans ==
  {pl \in [libraries : {q \in UNION {[1..n -> PlanLibs] : n \in 0..MaxLibs} : IsUnique(q)},
           depends : [PlanLibs -> SUBSET PlanLibs],
           given : {"option", "property"},
           priorityInit : {<<>>},
           required : {FALSE}] :
     \A l \in PlanLibs \ Range(pl.libraries) : pl.depends[l] = {}}

\* one application, booted and torn down
Init ==
  /\ InitKernel
  /\ NoCallbacks(Libs \cup Apps)
  /\ scenario \in Scenarios(Stages, MaxCallbacks, FewCalls, {{a} : a \in Apps}, FALSE)
  /\ plan = NoPlan
  /\ NoSchedules
  /\ NoConfiguration

\* two applications, any calls
InitCalls ==
  /\ InitKernel
  /\ NoCallbacks(Libs \cup Apps)
  /\ scenario \in Scenarios(Stages, FewCallbacks, MaxCalls, {Apps}, TRUE)
  /\ plan = NoPlan
  /\ NoSchedules
  /\ NoConfiguration

\* application A, booted and torn down, also by teardown() calls that overlap
InitTeardown ==
  /\ InitKernel
  /\ NoCallbacks(Libs \cup Apps)
  /\ scenario \in Scenarios({"Ready", "ShutdownStart", "ShutdownComplete"},
                            MaxCallbacks, MaxCalls, {{"A"}}, FALSE)
  /\ plan = NoPlan
  /\ NoSchedules
  /\ NoConfiguration

\* the scheduler alone, from the call of Scheduler on
InitScheduler ==
  /\ InitKernel
  /\ NoCallbacks(Libs \cup Apps)
  /\ scenario \in Scenarios({"Ready"}, 0, 0, {{"A"}}, FALSE)
  /\ plan = NoPlan
  /\ NoSchedules
  /\ NoConfiguration

\* application P with each libraries list, booted once
InitPlan ==
  /\ InitKernel
  /\ NoCallbacks(PlanLibs \cup {PlanApp})
  /\ scenario \in Scenarios({"Ready"}, 0, 1, {{PlanApp}}, FALSE)
  /\ plan \in Plans
  /\ NoSchedules
  /\ NoConfiguration

\* the names a priorityInit of library p is made of: its services, and a name
\* that is none of its services
PriorityNames == {"p1", "p2", "px"}

\* application P with library p, p with each priorityInit of at most
\* MaxPriority names, booted once
InitWire ==
  /\ InitKernel
  /\ NoCallbacks(PlanLibs \cup {PlanApp})
  /\ scenario \in Scenarios({"Ready"}, 0, 1, {{PlanApp}}, FALSE)
  /\ plan \in {[NoPlan EXCEPT !.libraries = <<"p">>, !.priorityInit = q] :
                q \in UNION {[1..n -> PriorityNames] : n \in 0..MaxPriority}}
  /\ NoSchedules
  /\ NoConfiguration

\* nothing is booted: the creators are called
InitCreate ==
  /\ InitKernel
  /\ NoCallbacks(Libs \cup Apps)
  /\ scenario \in Scenarios({"Ready"}, 0, 0, {{"A"}}, FALSE)
  /\ plan = NoPlan
  /\ NoSchedules
  /\ NoConfiguration

\* application A, booted and torn down, with factories and callbacks that
\* fail and signals delivered
InitFaults ==
  /\ InitKernel
  /\ NoCallbacks(Libs \cup Apps)
  /\ scenario \in Scenarios({"Bootstrap", "ShutdownStart", "ShutdownComplete"},
                            FewCallbacks, FewCalls, {{"A"}}, FALSE)
  /\ plan = NoPlan
  /\ NoSchedules
  /\ NoConfiguration

\* application P, which declares REQUIRED_CONFIG with required: true, booted
\* once, each source supplying the key or not
InitRequired ==
  /\ InitKernel
  /\ NoCandidates
  /\ NoCallbacks(PlanLibs \cup {PlanApp})
  /\ scenario \in Scenarios({"Ready"}, MaxCallbacks, 1, {{PlanApp}}, FALSE)
  /\ plan = [NoPlan EXCEPT !.required = TRUE]
  /\ NoSchedules
  /\ configuration = [k \in ConfigKeys |-> "undeclared"]
  /\ supplied \in [Loaders \cup {"bootstrap"} -> SUBSET RequiredKeys]
  /\ configured = 0
  /\ watchers = <<>>
  /\ lastSet = NoSet

\* one bootstrap of application A, with callbacks for the Bootstrap stage
InitPriority ==
  /\ InitKernel
  /\ NoCallbacks(Libs \cup Apps)
  /\ scenario \in Scenarios({"Bootstrap"}, MaxCallbacks, 1, {{"A"}}, FALSE)
  /\ plan = NoPlan
  /\ NoSchedules
  /\ NoConfiguration

\* Server_Bindings has been called: nothing of it has run
InitServer ==
  /\ InitKernel
  /\ NoCallbacks(Libs \cup Apps)
  /\ scenario \in Scenarios({"Ready"}, 0, 0, {{"A"}}, FALSE)
  /\ plan = NoPlan
  /\ NoSchedules
  /\ NoConfiguration

\* ZCC_Scheduler has been called: no schedule is created
InitSliding ==
  /\ InitKernel
  /\ NoCallbacks(Libs \cup Apps)
  /\ scenario \in Scenarios({"Ready"}, 0, 0, {{"A"}}, FALSE)
  /\ plan = NoPlan
  /\ NoSchedules
  /\ NoConfiguration

\* the keys of an object, at most MaxCandidates of them: no key twice
KeyLists == {q \in UNION {[1..n -> CandidateNames] : n \in 0..MaxCandidates} : IsUnique(q)}

\* the loader is about to run, with any switches and any environment
InitEnvironment ==
  /\ InitKernel
  /\ NoCallbacks(Libs \cup Apps)
  /\ scenario \in Scenarios({"Ready"}, 0, 0, {{"A"}}, FALSE)
  /\ plan = NoPlan
  /\ NoSchedules
  /\ configuration = [k \in ConfigKeys |-> "undeclared"]
  /\ supplied = [src \in Loaders \cup {"bootstrap"} |-> {}]
  /\ configured = 0
  /\ watchers = <<>>
  /\ lastSet = NoSet
  /\ switchKeys \in KeyLists
  /\ environmentKeys \in KeyLists
  /\ environmentOut = [source |-> "unloaded", name |-> "undefined"]

\* a bootstrap whose sources supply any of SuppliedKeys
InitLoad ==
  /\ InitKernel
  /\ NoCandidates
  /\ NoCallbacks(Libs \cup Apps)
  /\ scenario \in Scenarios({"Ready"}, 0, 0, {{"A"}}, FALSE)
  /\ plan = NoPlan
  /\ NoSchedules
  /\ configuration = [k \in ConfigKeys |-> "undeclared"]
  /\ supplied \in [Loaders \cup {"bootstrap"} -> SUBSET SuppliedKeys]
  /\ configured = 0
  /\ watchers = <<>>
  /\ lastSet = NoSet

\* the modules are declared and no source has supplied anything: every key
\* has its default
InitWatch ==
  /\ InitKernel
  /\ NoCandidates
  /\ NoCallbacks(Libs \cup Apps)
  /\ scenario \in Scenarios({"Ready"}, 0, 0, {{"A"}}, FALSE)
  /\ plan = NoPlan
  /\ NoSchedules
  /\ configuration = [k \in ConfigKeys |-> Default(k)]
  /\ supplied = [src \in Loaders \cup {"bootstrap"} |-> {}]
  /\ configured = Len(ConfigSteps)
  /\ watchers = <<>>
  /\ lastSet = NoSet

\* ----------------------------------------------------------------- helpers
\* Map.get / Map.set on an insertion-ordered map
MapHas(map, name) == \E i \in 1..Len(map) : map[i].name = name

MapGet(map, name) == map[CHOOSE i \in 1..Len(map) : map[i].name = name].lc

MapSet(map, name, lc) ==
  IF MapHas(map, name)
  THEN [i \in 1..Len(map) |-> IF map[i].name = name THEN [name |-> name, lc |-> lc] ELSE map[i]]
  ELSE Append(map, [name |-> name, lc |-> lc])

\* the resolved APIs a factory reaches through its parameter bundle: the
\* loaded object of every project in LOADED_MODULES, spread into the bundle
\* and then overwritten by the keys WireService sets itself
Params(loaded) == {api \in loaded.apis : api[1] \in loaded.keys \ ParamKeys}

\* the lifecycle object of a module definition
ModLifecycle(m, bp) == IF m = "boilerplate" THEN Lifecycle(m, bp) ELSE Lifecycle(m, 0)

\* WireOrder without its second half: only the priority list
WireOrderPriorityOnly(priority, list) == priority

\* WireOrder without its filter: the priority list, then every service
WireOrderKeepsAll(priority, list) == priority \o list

\* WireOrder: the priority list, then the services that are not in it
WireOrder(priority, list) ==
  priority \o SelectSeqBy(list, Range(list) \ Range(priority))

WireOrderThrows(priority) == ~IsUnique(priority)

\* BuildSortOrder: [error, order]
RECURSIVE SortLoop(_, _)
SortLoop(starting, out) ==
  IF starting = <<>> THEN [error |-> "", order |-> out]
  ELSE LET ready == {i \in 1..Len(starting) : LibDepends(starting[i]) \subseteq Range(out)}
       IN IF ready = {} THEN [error |-> "BAD_SORT", order |-> out]
          ELSE LET next == starting[CHOOSE i \in ready : \A j \in ready : i <= j]
               IN SortLoop(SelectSeqBy(starting, Range(starting) \ {next}), Append(out, next))

BuildSortOrder(app) ==
  IF AppLibraries(app) = <<>> THEN [error |-> "", order |-> <<>>]
  ELSE IF \E l \in Range(AppLibraries(app)) : ~(LibDepends(l) \subseteq Range(AppLibraries(app)))
       THEN [error |-> "MISSING_DEPENDENCY", order |-> <<>>]
       ELSE SortLoop(AppLibraries(app), <<>>)

\* the comparator RunStageCallbacks hands to Array.prototype.sort
Compare(a, b) == IF a > b THEN UP ELSE DOWN

\* Array.prototype.sort under Compare: every arrangement of cbs in which no
\* pair stands against the comparator's answers.  Compare never answers 0,
\* so for two equal priorities it calls each smaller than the other, and the
\* order of the two in the result is the engine's choice.
SortedOrders(cbs) ==
  LET n == Len(cbs)
      perms == {p \in [1..n -> 1..n] : \A i, j \in 1..n : p[i] = p[j] => i = j}
      arranged(p) == [i \in 1..n |-> cbs[p[i]]]
      admissible(s) ==
        \A i, j \in 1..n :
          i < j => ~(Compare(s[i][2], s[j][2]) > 0 /\ Compare(s[j][2], s[i][2]) < 0)
  IN {arranged(p) : p \in {q \in perms : admissible(arranged(q))}}

FilterPriority(cbs, keepNone) ==
  LET F[i \in 0..Len(cbs)] ==
        IF i = 0 THEN <<>>
        ELSE IF (cbs[i][2] = NONE) = keepNone THEN Append(F[i - 1], cbs[i]) ELSE F[i - 1]
  IN F[Len(cbs)]

\* the lifecycles RunStageCallbacks walks: boilerplate, then every other
\* entry of LOADED_LIFECYCLES whose name is neither "boilerplate" nor "application"
RunList(map) ==
  LET F[i \in 0..Len(map)] ==
        IF i = 0 THEN <<>>
        ELSE IF map[i].name \in {"boilerplate", "application"} THEN F[i - 1]
             ELSE Append(F[i - 1], map[i].lc)
  IN <<MapGet(map, "boilerplate")>> \o F[Len(map)]

\* an attach function that never takes the late branch
IsLateAttachNever(stage) == FALSE

\* a late attach: the stage is in completedLifecycleCallbacks
IsLateAttach(stage) == stage \in completedLifecycleCallbacks

\* ------------------------------------------------------------- event loop
\* A task is busy while it has synchronous code to run; everything else
\* (a call from outside, a promise settling, an immediate) waits for it.
BootBusy ==
  \/ boot.pc \in {"module", "next", "moduleDone"}
  \/ boot.pc = "stage" /\ runs["boot"].pc = "done"

RunBusy(t) == runs[t].pc \in {"module", "sorted"}

TdBusy(t) == td[t].pc = "stage" /\ runs[t].pc = "done"

LoopIdle ==
  /\ proc = "running"
  /\ ~BootBusy
  /\ \A t \in Tasks : ~RunBusy(t)
  /\ \A t \in TdTasks : ~TdBusy(t)

\* exit(code) of "process": the status the process ends with.  Without an
\* argument it is process.exitCode, which nothing sets: 0.
exit(args) == IF args = <<>> THEN 0 ELSE args[1]

\* exit() after an error caught by Bootstrap's catch: logger?.fatal, exit()
Exit(code) ==
  /\ proc' = "exited"
  /\ exitCause' = code
  /\ exitStatus' = exit(<<>>)
  /\ fatalLog' = IF logger THEN fatalLog \cup {[msg |-> "bootstrap failed", id |-> 0]} ELSE fatalLog
  /\ UNCHANGED <<errorLog, thrown>>

\* the first lines of RunStageCallbacks
StartRun(t, stage) ==
  /\ completedLifecycleCallbacks' = completedLifecycleCallbacks \cup {stage}
  /\ runs' = [runs EXCEPT ![t] =
                [pc |-> "module", stage |-> stage, list |-> RunList(LOADED_LIFECYCLES),
                 i |-> 1, sorted |-> <<>>, quick |-> {}, cur |-> 0, pending |-> {}]]

\* --------------------------------------------------------------- Bootstrap
\* application.bootstrap(), and Bootstrap up to the first service of boilerplate
BootstrapCall(a) ==
  /\ LoopIdle
  /\ a \in scenario.apps
  /\ scenario.misuse \/ (boot.pc = "idle" /\ ACTIVE_APPLICATION = "none" /\ ~booted[a])
  /\ calls < scenario.calls
  /\ calls' = calls + 1
  /\ IF booted[a]
     THEN /\ thrown' = thrown \cup {<<a, "DOUBLE_BOOT">>}
          /\ UNCHANGED <<configuration, proc, exitCause, exitStatus, fatalLog, errorLog, wiringVars, appVars, cbVars,
                         taskVars, started, resolved, factoryCalls, wiredLog, loaders,
                         finishedStages>>
     ELSE IF ACTIVE_APPLICATION # "none"
     THEN /\ thrown' = thrown \cup {<<a, "NO_DUAL_BOOT">>}
          /\ UNCHANGED <<configuration, proc, exitCause, exitStatus, fatalLog, errorLog, wiringVars, appVars, cbVars,
                         taskVars, started, resolved, factoryCalls, wiredLog, loaders,
                         finishedStages>>
     ELSE LET g == internal.gen + 1
              lc == Lifecycle("boilerplate", g)
              first == Head(WireOrder(ModPriorityInit("boilerplate"), ModServices("boilerplate")))
          IN /\ internal' = [gen |-> g, application |-> a, wired |-> FALSE]
             /\ LIB_BOILERPLATE' = g
             /\ childCallbacks' = (lc :> EmptyCallbacks) @@ childCallbacks
             /\ IF <<"boilerplate", first>> \in MODULE_MAPPINGS
                THEN \* WIRE_PROJECT of the new boilerplate, WireService throws
                     /\ LOADED_LIFECYCLES' = MapSet(LOADED_LIFECYCLES, "boilerplate", lc)
                     /\ Exit("DUPLICATE_SERVICE_NAME")
                     /\ UNCHANGED boot
                ELSE /\ boot.pc = "idle"
                     /\ boot' = [IdleBoot EXCEPT !.pc = "module", !.app = a,
                                                 !.mods = <<"boilerplate">>]
                     /\ UNCHANGED <<procVars, LOADED_LIFECYCLES>>
             /\ loaders' = "idle"
             /\ configuration' = [k \in ConfigKeys |-> "undeclared"]
             /\ UNCHANGED <<MODULE_MAPPINGS, LOADED_MODULES, logger, processListeners,
                            appVars, immediates, registered, td, runs, running, started,
                            resolved, factoryCalls, wiredLog, finishedStages>>

\* WIRE_PROJECT of the next module of the plan, or the first stage
StartModule ==
  /\ proc = "running"
  /\ boot.pc = "module"
  /\ IF boot.mods = <<>>
     THEN \* internal.config.merge(options.configuration) unless it is empty,
          \* then RunStageCallbacks("PreInit")
          /\ configuration' = IF supplied["bootstrap"] = {} THEN configuration
                              ELSE merge(configuration, supplied["bootstrap"], "bootstrap")
          /\ boot' = [boot EXCEPT !.pc = "stage", !.stage = 1]
          /\ StartRun("boot", BootStages[1])
          /\ UNCHANGED <<procVars, wiringVars, ACTIVE_APPLICATION, booted>>
     ELSE LET m == Head(boot.mods)
          IN /\ LOADED_LIFECYCLES' =
                  MapSet(LOADED_LIFECYCLES, ModName(m), ModLifecycle(m, LIB_BOILERPLATE))
             /\ configuration' = IF m = "boilerplate" \/ ModConfiguration(m) = {}
                                 THEN configuration
                                 ELSE LOAD_PROJECT(configuration, ModName(m))
             /\ IF WireOrderThrows(ModPriorityInit(m))
                THEN Exit("DOUBLE_PRIORITY") /\ UNCHANGED boot
                ELSE /\ boot' = [boot EXCEPT !.pc = "next", !.mod = m, !.mods = Tail(boot.mods),
                                             !.rest = WireOrder(ModPriorityInit(m), ModServices(m))]
                     /\ UNCHANGED procVars
             /\ UNCHANGED <<MODULE_MAPPINGS, LOADED_MODULES, internal, LIB_BOILERPLATE, logger,
                            processListeners, appVars, runs>>
  /\ UNCHANGED <<cbVars, td, running, histVars>>

\* WireService up to the await of the factory
WireNext ==
  /\ proc = "running"
  /\ boot.pc = "next"
  /\ IF boot.rest = <<>>
     THEN /\ boot' = [boot EXCEPT !.pc = "moduleDone"]
          /\ UNCHANGED <<procVars, MODULE_MAPPINGS, LOADED_MODULES, factoryCalls, wiredLog>>
     ELSE LET s == Head(boot.rest)
              key == <<ModName(boot.mod), s>>
          IN IF key \in MODULE_MAPPINGS
             THEN /\ Exit("DUPLICATE_SERVICE_NAME")
                  /\ UNCHANGED <<boot, MODULE_MAPPINGS, LOADED_MODULES, factoryCalls, wiredLog>>
             ELSE /\ MODULE_MAPPINGS' = MODULE_MAPPINGS \cup {key}
                  /\ LOADED_MODULES' = [LOADED_MODULES EXCEPT !.keys = @ \cup {ModName(boot.mod)}]
                  /\ IF s \in Range(ModServices(boot.mod))
                     THEN /\ factoryCalls' = [factoryCalls EXCEPT ![key] = @ + 1]
                          /\ wiredLog' = Append(wiredLog,
                                                [key |-> key, loaded |-> LOADED_MODULES.apis,
                                                 params |-> Params(LOADED_MODULES')])
                          /\ boot' = [boot EXCEPT !.pc = "wire", !.svc = s, !.rest = Tail(boot.rest)]
                          /\ UNCHANGED procVars
                     ELSE \* definition is undefined: the call throws inside the try
                          /\ proc' = "exited"
                          /\ exitCause' = "Initialization error"
                          /\ exitStatus' = exit(<<>>)
                          /\ fatalLog' = IF logger
                                         THEN fatalLog \cup {[msg |-> "Initialization error", id |-> 0]}
                                         ELSE fatalLog
                          /\ UNCHANGED <<errorLog, thrown, boot, factoryCalls, wiredLog>>
  /\ UNCHANGED <<LOADED_LIFECYCLES, internal, LIB_BOILERPLATE, logger, processListeners,
                 appVars, cbVars, td, runs, running, started, resolved, finishedStages, calls,
                 loaders>>
  /\ UNCHANGED configuration

\* the awaited factory resolves: loaded[service] = resolved
FactoryResolve ==
  /\ LoopIdle
  /\ boot.pc = "wire"
  /\ LOADED_MODULES' = [LOADED_MODULES EXCEPT !.apis = @ \cup {<<ModName(boot.mod), boot.svc>>}]
  /\ boot' = [boot EXCEPT !.pc = "next", !.svc = "none"]
  /\ UNCHANGED <<procVars, MODULE_MAPPINGS, LOADED_LIFECYCLES, internal, LIB_BOILERPLATE,
                 logger, processListeners, appVars, cbVars, td, runs, running, histVars>>
  /\ UNCHANGED configuration

\* after WIRE_PROJECT of a module; for boilerplate: internal.*, logger, the
\* process listeners and BuildSortOrder
ModuleDone ==
  /\ proc = "running"
  /\ boot.pc = "moduleDone"
  /\ IF boot.mod = "boilerplate"
     THEN LET sort == BuildSortOrder(boot.app)
          IN /\ internal' = [internal EXCEPT !.wired = TRUE]
             /\ configuration' = LOAD_PROJECT(configuration, "boilerplate")
             /\ logger' = TRUE
             /\ processListeners' = processListeners + 1
             /\ IF sort.error # ""
                THEN /\ proc' = "exited"
                     /\ exitCause' = sort.error
                     /\ exitStatus' = exit(<<>>)
                     /\ fatalLog' = fatalLog \cup {[msg |-> "bootstrap failed", id |-> 0]}
                     /\ UNCHANGED <<errorLog, thrown, boot>>
                ELSE /\ boot' = [boot EXCEPT !.pc = "module", !.mods = sort.order \o <<boot.app>>]
                     /\ UNCHANGED procVars
     ELSE /\ boot' = [boot EXCEPT !.pc = "module"]
          /\ UNCHANGED <<procVars, internal, logger, processListeners, configuration>>
  /\ UNCHANGED <<MODULE_MAPPINGS, LOADED_MODULES, LOADED_LIFECYCLES, LIB_BOILERPLATE,
                 appVars, cbVars, td, runs, running, histVars>>

\* Bootstrap after a RunStageCallbacks call has returned
BootAfterStage ==
  /\ proc = "running"
  /\ boot.pc = "stage"
  /\ runs["boot"].pc = "done"
  /\ finishedStages' = finishedStages \cup {BootStages[boot.stage]}
  /\ IF boot.stage = 1
     THEN \* await configuration[INITIALIZE](application)
          /\ boot' = [boot EXCEPT !.pc = "configure"]
          /\ runs' = [runs EXCEPT !["boot"] = IdleRun]
          /\ loaders' = "called"
          /\ UNCHANGED appVars
     ELSE IF boot.stage < Len(BootStages)
     THEN /\ boot' = [boot EXCEPT !.stage = @ + 1]
          /\ StartRun("boot", BootStages[boot.stage + 1])
          /\ UNCHANGED <<ACTIVE_APPLICATION, booted, loaders>>
     ELSE \* ACTIVE_APPLICATION = application; application.booted = true
          /\ ACTIVE_APPLICATION' = boot.app
          /\ booted' = [booted EXCEPT ![boot.app] = TRUE]
          /\ boot' = [IdleBoot EXCEPT !.app = boot.app]
          /\ runs' = [runs EXCEPT !["boot"] = IdleRun]
          /\ UNCHANGED <<completedLifecycleCallbacks, loaders>>
  /\ UNCHANGED <<procVars, wiringVars, cbVars, td, running, started, resolved, factoryCalls,
                 wiredLog, calls>>
  /\ UNCHANGED configuration

\* INITIALIZE has run the loaders, and Bootstrap goes on whatever is missing
ConfigureDoneUnchecked ==
  /\ LoopIdle
  /\ boot.pc = "configure"
  /\ loaders' = "done"
  /\ configuration' = INITIALIZE(configuration, supplied)
  /\ boot' = [boot EXCEPT !.pc = "stage", !.stage = 2]
  /\ StartRun("boot", BootStages[2])
  /\ UNCHANGED procVars
  /\ UNCHANGED <<wiringVars, ACTIVE_APPLICATION, booted, cbVars, td, running, started,
                 resolved, factoryCalls, finishedStages, calls, wiredLog>>

\* INITIALIZE has run the loaders and validates: a required key without a
\* value is printed with console.error and the process is ended; else the
\* configuration is loaded: RunStageCallbacks("PostConfig")
ConfigureDone ==
  /\ LoopIdle
  /\ boot.pc = "configure"
  /\ loaders' = "done"
  /\ LET loaded == INITIALIZE(configuration, supplied)
     IN /\ configuration' = loaded
        /\ IF validateConfig(loaded) # {}
           THEN /\ proc' = "exited"
                /\ exitCause' = "required config"
                /\ exitStatus' = exit(<<1>>)
                /\ errorLog' = errorLog \cup {"is a required config"}
                /\ UNCHANGED <<fatalLog, thrown, boot, runs, completedLifecycleCallbacks>>
           ELSE /\ boot' = [boot EXCEPT !.pc = "stage", !.stage = 2]
                /\ StartRun("boot", BootStages[2])
                /\ UNCHANGED procVars
  /\ UNCHANGED <<wiringVars, ACTIVE_APPLICATION, booted, cbVars, td, running, started,
                 resolved, factoryCalls, finishedStages, calls, wiredLog>>

\* ------------------------------------------------------- RunStageCallbacks
\* eachSeries(list, ...): the next module's callbacks, split and sorted
RunModule(t) ==
  /\ proc = "running"
  /\ runs[t].pc = "module"
  /\ LET r == runs[t]
     IN IF r.i > Len(r.list)
        THEN runs' = [runs EXCEPT ![t].pc = "done"]
        ELSE LET callbacks == childCallbacks[r.list[r.i]][r.stage]
             IN IF callbacks = <<>>
                THEN runs' = [runs EXCEPT ![t].i = @ + 1]
                ELSE LET quick == FilterPriority(callbacks, TRUE)
                     IN \E order \in SortedOrders(FilterPriority(callbacks, FALSE)) :
                          runs' = [runs EXCEPT ![t].pc = "sorted", ![t].sorted = order,
                                               ![t].quick = {quick[k][1] : k \in 1..Len(quick)}]
  /\ UNCHANGED <<procVars, wiringVars, appVars, cbVars, boot, td, running, histVars>>
  /\ UNCHANGED configuration

\* eachSeries(sorted, ...): invoke the next prioritized callback and await it;
\* after the last one each(quick, ...): invoke every unordered callback
RunSorted(t) ==
  /\ proc = "running"
  /\ runs[t].pc = "sorted"
  /\ LET r == runs[t]
     IN IF r.sorted # <<>>
        THEN LET c == Head(r.sorted)[1]
             IN /\ started' = [started EXCEPT ![c] = @ + 1]
                /\ running' = running \cup {[task |-> t, cb |-> c]}
                /\ runs' = [runs EXCEPT ![t].pc = "awaitSorted", ![t].cur = c]
        ELSE IF r.quick = {}
        THEN /\ runs' = [runs EXCEPT ![t].pc = "module", ![t].i = @ + 1]
             /\ UNCHANGED <<started, running>>
        ELSE /\ started' = [c \in DOMAIN started |->
                              IF c \in r.quick THEN started[c] + 1 ELSE started[c]]
             /\ running' = running \cup {[task |-> t, cb |-> c] : c \in r.quick}
             /\ runs' = [runs EXCEPT ![t].pc = "awaitQuick", ![t].pending = r.quick,
                                      ![t].quick = {}]
  /\ UNCHANGED <<procVars, wiringVars, appVars, cbVars, boot, td, resolved, factoryCalls, wiredLog, loaders,
                 finishedStages, calls>>
  /\ UNCHANGED configuration

\* the promise of an invoked callback resolves
CallbackResolve(inv) ==
  /\ LoopIdle
  /\ inv \in running
  /\ running' = running \ {inv}
  /\ resolved' = [resolved EXCEPT ![inv.cb] = @ + 1]
  /\ IF inv.task \in Tasks
     THEN LET r == runs[inv.task]
          IN IF r.pc = "awaitSorted"
             THEN runs' = [runs EXCEPT ![inv.task].pc = "sorted", ![inv.task].cur = 0,
                                       ![inv.task].sorted = Tail(r.sorted)]
             ELSE IF r.pending = {inv.cb}
             THEN runs' = [runs EXCEPT ![inv.task].pc = "module", ![inv.task].pending = {},
                                       ![inv.task].i = @ + 1]
             ELSE runs' = [runs EXCEPT ![inv.task].pending = @ \ {inv.cb}]
     ELSE UNCHANGED runs
  /\ UNCHANGED <<procVars, wiringVars, appVars, cbVars, boot, td, started, factoryCalls, wiredLog, loaders,
                 finishedStages, calls>>
  /\ UNCHANGED configuration

\* a callback deferred with setImmediate is invoked
RunImmediate ==
  /\ LoopIdle
  /\ immediates # <<>>
  /\ LET c == Head(immediates)
     IN /\ started' = [started EXCEPT ![c] = @ + 1]
        /\ running' = running \cup {[task |-> "immediate", cb |-> c]}
  /\ immediates' = Tail(immediates)
  /\ UNCHANGED <<procVars, wiringVars, appVars, childCallbacks, registered, boot, td, runs,
                 resolved, factoryCalls, wiredLog, loaders, finishedStages, calls>>
  /\ UNCHANGED configuration

\* ------------------------------------------------------ CreateChildLifecycle
\* the lifecycles the code that is running now holds: the one handed to the
\* factory being awaited, and the one of every callback being awaited
HeldLifecycles ==
  {ModLifecycle(boot.mod, LIB_BOILERPLATE) : x \in {y \in {1} : boot.pc = "wire"}} \cup
  {registered[inv.cb].lc : inv \in running}

\* lifecycle.on<stage>(callback, priority): given tells whether the caller
\* passed a priority, value is the priority passed
Attach(lc, stage, given, value) ==
  /\ LoopIdle
  /\ Len(registered) < scenario.callbacks
  /\ stage = scenario.focus
  /\ lc \in HeldLifecycles
  /\ LET c == Len(registered) + 1
         priority == IF given THEN value ELSE NONE
         how == IF ~IsLateAttach(stage) THEN "listed"
                ELSE IF stage \in DeferredStages THEN "deferred" ELSE "dropped"
     IN /\ registered' = Append(registered,
                                [lc |-> lc, stage |-> stage, priority |-> priority, how |-> how,
                                 given |-> given,
                                 late |-> stage \in completedLifecycleCallbacks,
                                 open |-> stage \notin finishedStages])
        /\ immediates' = IF how = "deferred" THEN Append(immediates, c) ELSE immediates
        /\ fatalLog' = IF how = "dropped"
                       THEN fatalLog \cup {[msg |-> "late attach, cannot attach callback", id |-> c]}
                       ELSE fatalLog
        /\ childCallbacks' =
             IF how = "listed"
             THEN [childCallbacks EXCEPT ![lc][stage] = Append(@, <<c, priority>>)]
             ELSE childCallbacks
  /\ UNCHANGED <<proc, exitCause, exitStatus, errorLog, thrown, wiringVars, appVars, taskVars, histVars>>
  /\ UNCHANGED configuration

\* ---------------------------------------------------------------- Teardown
\* application.teardown(), and Teardown up to its first await
TeardownCall(a) ==
  /\ LoopIdle
  /\ a \in scenario.apps
  /\ scenario.misuse \/ booted[a]
  /\ calls < scenario.calls
  /\ calls' = calls + 1
  /\ IF ~booted[a]
     THEN /\ IF logger
             THEN /\ errorLog' = errorLog \cup {"application is not booted, cannot teardown"}
                  /\ UNCHANGED thrown
             ELSE /\ thrown' = thrown \cup {<<a, "TypeError">>}
                  /\ UNCHANGED errorLog
          /\ UNCHANGED <<appVars, td, runs>>
     ELSE IF ACTIVE_APPLICATION = "none"
     THEN /\ booted' = [booted EXCEPT ![a] = FALSE]
          /\ UNCHANGED <<errorLog, thrown, ACTIVE_APPLICATION, completedLifecycleCallbacks,
                         td, runs>>
     ELSE \E t \in TdTasks :
            /\ td[t].pc = "idle"
            /\ \A u \in TdTasks : td[u].pc = "idle" => (u = t \/ t = "td1")
            /\ td' = [td EXCEPT ![t] = [pc |-> "stage", app |-> a, stage |-> 1]]
            /\ StartRun(t, TeardownStages[1])
            /\ UNCHANGED <<errorLog, thrown, ACTIVE_APPLICATION, booted>>
  /\ UNCHANGED <<proc, exitCause, exitStatus, fatalLog, wiringVars, cbVars, boot, running, started,
                 resolved, factoryCalls, wiredLog, loaders, finishedStages>>
  /\ UNCHANGED configuration

\* Teardown after a RunStageCallbacks call has returned
TdAfterStage(t) ==
  /\ proc = "running"
  /\ td[t].pc = "stage"
  /\ runs[t].pc = "done"
  /\ finishedStages' = finishedStages \cup {TeardownStages[td[t].stage]}
  /\ IF td[t].stage < Len(TeardownStages)
     THEN /\ td' = [td EXCEPT ![t].stage = @ + 1]
          /\ StartRun(t, TeardownStages[td[t].stage + 1])
          /\ UNCHANGED <<procVars, ACTIVE_APPLICATION, booted, processListeners>>
     ELSE /\ ACTIVE_APPLICATION' = "none"
          /\ completedLifecycleCallbacks' = {}
          /\ processListeners' = IF processListeners > 0 THEN processListeners - 1 ELSE 0
          /\ td' = [td EXCEPT ![t] = IdleTd]
          /\ runs' = [runs EXCEPT ![t] = IdleRun]
          /\ IF td[t].app \in Signals
             THEN \* the handler of the signal goes on: exit()
                  /\ proc' = "exited"
                  /\ exitCause' = td[t].app
                  /\ exitStatus' = exit(<<>>)
                  /\ UNCHANGED <<fatalLog, errorLog, thrown, booted>>
             ELSE \* application.teardown goes on: application.booted = false
                  /\ booted' = [booted EXCEPT ![td[t].app] = FALSE]
                  /\ UNCHANGED procVars
  /\ UNCHANGED <<MODULE_MAPPINGS, LOADED_MODULES, LOADED_LIFECYCLES, internal,
                 LIB_BOILERPLATE, logger, cbVars, boot, running, started, resolved,
                 factoryCalls, wiredLog, loaders,
                 calls>>
  /\ UNCHANGED configuration

\* ----------------------------------------------------------------- failures
\* a catch that logs and lets the wiring go on
InitializationErrorLogged(hasLogger) == [proc |-> "running", fatal |-> hasLogger]

\* the catch of WireService: logger?.fatal(...), exit()
InitializationError(hasLogger) == [proc |-> "exited", fatal |-> hasLogger]

\* the factory WireService awaits throws, or the promise it returned rejects.
\* The factories of boilerplate are the kernel's own; the ones that fail are
\* those of the libraries and of the application.
FactoryReject ==
  /\ LoopIdle
  /\ boot.pc = "wire"
  /\ boot.mod # "boilerplate"
  /\ LET caught == InitializationError(<<"boilerplate", "logger">> \in LOADED_MODULES.apis)
     IN /\ proc' = caught.proc
        /\ exitCause' = "Initialization error"
        /\ exitStatus' = exit(<<>>)
        /\ fatalLog' = IF caught.fatal
                       THEN fatalLog \cup {[msg |-> "Initialization error", id |-> 0]}
                       ELSE fatalLog
        /\ boot' = IF caught.proc = "exited" THEN boot
                   ELSE [boot EXCEPT !.pc = "next", !.svc = "none"]
  /\ UNCHANGED <<errorLog, thrown, wiringVars, appVars, cbVars, td, runs, running, histVars>>
  /\ UNCHANGED configuration

\* a rejection that nothing handles: the runtime raises it as an uncaught
\* exception, which ends the process with status 1
Unhandled ==
  /\ proc' = "exited"
  /\ exitCause' = "unhandledRejection"
  /\ exitStatus' = exit(<<1>>)
  /\ UNCHANGED <<fatalLog, errorLog, thrown>>

\* the promise of an invoked callback rejects (or the callback throws).
\* RunStageCallbacks, Teardown and application.teardown catch nothing: in a run
\* of Bootstrap the rejection reaches the catch of Bootstrap; in a run of
\* Teardown it reaches the caller of teardown(), or, under a signal handler,
\* nobody; so it does from a callback invoked by setImmediate.
CallbackReject(inv) ==
  /\ LoopIdle
  /\ inv \in running
  /\ IF inv.task = "boot"
     THEN /\ Exit("callback error")
          /\ UNCHANGED <<td, runs, running>>
     ELSE IF inv.task \in TdTasks
     THEN /\ td' = [td EXCEPT ![inv.task] = IdleTd]
          /\ runs' = [runs EXCEPT ![inv.task] = IdleRun]
          /\ running' = {IF i.task = inv.task THEN [i EXCEPT !.task = "orphan"] ELSE i :
                           i \in running \ {inv}}
          /\ IF td[inv.task].app \in Signals
             THEN Unhandled
             ELSE /\ thrown' = thrown \cup {<<td[inv.task].app, "callback error">>}
                  /\ UNCHANGED <<proc, exitCause, exitStatus, fatalLog, errorLog>>
     ELSE /\ running' = running \ {inv}
          /\ UNCHANGED <<td, runs>>
          /\ IF inv.task = "immediate"
             THEN Unhandled
             ELSE UNCHANGED procVars
  /\ UNCHANGED <<wiringVars, appVars, cbVars, boot, histVars>>
  /\ UNCHANGED configuration

\* SIGTERM or SIGINT is delivered while the listeners of Bootstrap are on the
\* process: logger.warn, await Teardown(), exit().  The next signal comes
\* when the handler of this one is through.
Signal(sig) ==
  /\ LoopIdle
  /\ processListeners > 0
  /\ \A t \in TdTasks : td[t].app \notin Signals
  /\ IF ACTIVE_APPLICATION = "none"
     THEN \* Teardown returns at once
          /\ proc' = "exited"
          /\ exitCause' = sig
          /\ exitStatus' = exit(<<>>)
          /\ UNCHANGED <<fatalLog, errorLog, thrown, appVars, td, runs>>
     ELSE \E t \in TdTasks :
            /\ td[t].pc = "idle"
            /\ \A u \in TdTasks : td[u].pc = "idle" => (u = t \/ t = "td1")
            /\ td' = [td EXCEPT ![t] = [pc |-> "stage", app |-> sig, stage |-> 1]]
            /\ StartRun(t, TeardownStages[1])
            /\ UNCHANGED <<procVars, ACTIVE_APPLICATION, booted>>
  /\ UNCHANGED <<wiringVars, cbVars, boot, running, histVars>>
  /\ UNCHANGED configuration

\* --------------------------------------------------------------- Scheduler
\* The scheduler service of boilerplate (src/src/services/scheduler.extension.ts).
\* Its lifecycle is the one of boilerplate; phase follows it: "wiring" until
\* the Ready stage begins, "running" from then on, then the stages of
\* Teardown, PreShutdown first, and "down" when Teardown has returned.
Kinds == {"cron", "interval", "sliding"}

\* what next() of a sliding schedule returns: nothing, a time that has passed,
\* a time to come
NextResults == {"none", "past", "future"}

ShutdownPhases == <<"PreShutdown", "ShutdownStart", "ShutdownComplete", "down">>

\* lifecycle.onReady(callback): the callback goes to the Ready list of
\* boilerplate, or to setImmediate when the Ready stage is recorded as begun
OnReady == IF phase \in {"wiring", "down"} THEN "listed" ELSE "queued"

\* schedule(cronSchedule, callback) of node-cron: the task it returns is started
NewSchedule(kind) ==
  [kind |-> kind,
   cronJob |-> IF kind = "interval" THEN "none" ELSE "started",
   runningInterval |-> "undefined",
   timeout |-> "undefined",
   timers |-> 0,
   onReady |-> OnReady,
   early |-> phase = "wiring",
   cancelled |-> FALSE,
   inflight |-> 0,
   failed |-> FALSE,
   afterFail |-> FALSE]

\* clearTimeout(timeout): the pending timers left; a timer that has fired
\* or was cleared is not touched
clearTimeout(sch) == IF sch.timeout = "pending" THEN sch.timers - 1 ELSE sch.timers

\* a waitForNext that sets its timer without clearing the one it holds
waitForNextKeeps(sch, r) ==
  [sch EXCEPT !.timers = IF r = "future" THEN @ + 1 ELSE @,
              !.timeout = IF r = "future" THEN "pending" ELSE @]

\* waitForNext of a sliding schedule, next() returning r.  timeout is
\* "pending" while the timer it holds is to fire, "stale" when it holds a timer
\* that has fired or was cleared.  if (timeout): warn and clearTimeout; next()
\* once; setTimeout for a time to come.
waitForNext(sch, r) ==
  [sch EXCEPT !.timers = clearTimeout(sch) + (IF r = "future" THEN 1 ELSE 0),
              !.timeout = IF r = "future" THEN "pending"
                          ELSE IF @ = "undefined" THEN "undefined" ELSE "stale"]

\* the callbacks a schedule attached with lifecycle.onReady
onReadyCallback(sch, r) ==
  CASE sch.kind = "cron" -> [sch EXCEPT !.cronJob = "started", !.onReady = "done"]
    [] sch.kind = "interval" -> [sch EXCEPT !.runningInterval = "active", !.onReady = "done"]
    [] sch.kind = "sliding" ->
         waitForNext([sch EXCEPT !.cronJob = "started", !.onReady = "done"], r)

\* the stopFunction a schedule added to the stop set
stopFunction(sch) ==
  IF sch.kind = "interval"
  THEN [sch EXCEPT !.runningInterval = IF @ = "undefined" THEN "undefined" ELSE "cleared"]
  ELSE [sch EXCEPT !.cronJob = "stopped"]

\* a cancel function that starts again what it finds stopped
cancelToggles(sch) ==
  IF sch.kind = "interval"
  THEN [sch EXCEPT !.runningInterval = IF @ = "active" THEN "cleared" ELSE "active"]
  ELSE [sch EXCEPT !.cronJob = IF @ = "started" THEN "stopped" ELSE "started"]

\* the function cron, interval and sliding return
cancel(sch) ==
  IF sch.kind = "sliding"
  THEN [stopFunction(sch) EXCEPT !.timers = clearTimeout(sch), !.timeout = "undefined"]
  ELSE stopFunction(sch)

\* an envelope that lets the failure through
safeExecRethrows(outcome) == [logged |-> FALSE, propagated |-> outcome = "fail"]

\* internal.safeExec(exec): a failure is caught and logged
safeExec(outcome) == [logged |-> outcome = "fail", propagated |-> FALSE]

\* the callback of a timer invokes exec inside safeExec
ExecBegin(sch) == [sch EXCEPT !.inflight = @ + 1, !.afterFail = @ \/ sch.failed]

SchedulerIdle == ~uncaught /\ proc = "running"

\* scheduler.cron, scheduler.interval, scheduler.sliding
Create(kind) ==
  /\ SchedulerIdle
  /\ Len(schedules) < MaxSchedules
  /\ schedules' = Append(schedules, NewSchedule(kind))
  /\ stop' = stop \cup {Len(schedules) + 1}
  /\ UNCHANGED <<phase, execs, uncaught>>

\* the cancel function of a schedule is called
Cancel(s) ==
  /\ SchedulerIdle
  /\ s \in DOMAIN schedules
  /\ schedules' = [schedules EXCEPT ![s] = [cancel(@) EXCEPT !.cancelled = TRUE]]
  /\ UNCHANGED <<stop, phase, execs, uncaught>>

\* RunStageCallbacks("Ready"): the callbacks in the Ready list of boilerplate
ReadyStage ==
  /\ SchedulerIdle
  /\ phase = "wiring"
  /\ phase' = "running"
  /\ \E r \in [DOMAIN schedules -> NextResults] :
       /\ \A s \in DOMAIN schedules : schedules[s].kind # "sliding" => r[s] = "none"
       /\ schedules' = [s \in DOMAIN schedules |->
                          IF schedules[s].onReady = "listed"
                          THEN onReadyCallback(schedules[s], r[s])
                          ELSE schedules[s]]
  /\ UNCHANGED <<stop, execs, uncaught>>

\* an onReady callback handed to setImmediate runs
ReadyImmediate(s, r) ==
  /\ SchedulerIdle
  /\ s \in DOMAIN schedules
  /\ schedules[s].onReady = "queued"
  /\ \A t \in 1..(s - 1) : schedules[t].onReady # "queued"
  /\ schedules[s].kind # "sliding" => r = "none"
  /\ schedules' = [schedules EXCEPT ![s] = onReadyCallback(@, r)]
  /\ UNCHANGED <<stop, phase, execs, uncaught>>

\* a started cron job ticks: exec, or waitForNext for a sliding schedule
CronTick(s, r) ==
  /\ SchedulerIdle
  /\ s \in DOMAIN schedules
  /\ schedules[s].cronJob = "started"
  /\ IF schedules[s].kind = "sliding"
     THEN /\ schedules' = [schedules EXCEPT ![s] = waitForNext(@, r)]
          /\ UNCHANGED execs
     ELSE /\ r = "none"
          /\ execs < MaxExecs
          /\ execs' = execs + 1
          /\ schedules' = [schedules EXCEPT ![s] = ExecBegin(@)]
  /\ UNCHANGED <<stop, phase, uncaught>>

\* the timer of setInterval fires
IntervalTick(s) ==
  /\ SchedulerIdle
  /\ execs < MaxExecs
  /\ s \in DOMAIN schedules
  /\ schedules[s].runningInterval = "active"
  /\ execs' = execs + 1
  /\ schedules' = [schedules EXCEPT ![s] = ExecBegin(@)]
  /\ UNCHANGED <<stop, phase, uncaught>>

\* a one-shot timer of a sliding schedule fires, the oldest first; timeout
\* keeps the handle
TimeoutFire(s) ==
  /\ SchedulerIdle
  /\ execs < MaxExecs
  /\ s \in DOMAIN schedules
  /\ schedules[s].timers > 0
  /\ execs' = execs + 1
  /\ schedules' = [schedules EXCEPT ![s] =
                     ExecBegin([@ EXCEPT !.timers = @ - 1,
                                         !.timeout = IF schedules[s].timers = 1 /\ @ = "pending"
                                                     THEN "stale" ELSE @])]
  /\ UNCHANGED <<stop, phase, uncaught>>

\* an exec in flight returns or fails
ExecEnd(s, outcome) ==
  /\ SchedulerIdle
  /\ s \in DOMAIN schedules
  /\ schedules[s].inflight > 0
  /\ LET r == safeExec(outcome)
     IN /\ schedules' = [schedules EXCEPT ![s].inflight = @ - 1, ![s].failed = @ \/ r.logged]
        /\ uncaught' = r.propagated
  /\ UNCHANGED <<stop, phase, execs>>

\* Teardown begins: the PreShutdown stage, boilerplate first: onPreShutdown
\* of Scheduler calls every stopFunction of the stop set and deletes it
onPreShutdown ==
  /\ SchedulerIdle
  /\ phase = "running"
  /\ phase' = "PreShutdown"
  /\ schedules' = [s \in DOMAIN schedules |->
                     IF s \in stop THEN stopFunction(schedules[s]) ELSE schedules[s]]
  /\ stop' = {}
  /\ UNCHANGED <<execs, uncaught>>

\* Teardown goes on to its next stage, and returns after the last one
ShutdownNext ==
  /\ SchedulerIdle
  /\ \E i \in 1..(Len(ShutdownPhases) - 1) :
       /\ phase = ShutdownPhases[i]
       /\ phase' = ShutdownPhases[i + 1]
  /\ UNCHANGED <<schedules, stop, execs, uncaught>>

StepScheduler ==
  \/ \E kind \in Kinds : Create(kind)
  \/ \E s \in 1..MaxSchedules : Cancel(s)
  \/ ReadyStage
  \/ \E s \in 1..MaxSchedules, r \in NextResults : ReadyImmediate(s, r)
  \/ \E s \in 1..MaxSchedules, r \in NextResults : CronTick(s, r)
  \/ \E s \in 1..MaxSchedules : IntervalTick(s)
  \/ \E s \in 1..MaxSchedules : TimeoutFire(s)
  \/ \E s \in 1..MaxSchedules, outcome \in {"ok", "fail"} : ExecEnd(s, outcome)
  \/ onPreShutdown
  \/ ShutdownNext

NextScheduler == StepScheduler /\ UNCHANGED <<kernelVars, scenario, plan, creatorVars, configVars, serverVars, slidingVars, loaderVars>>

\* --------------------------------------------------------- module creation
\* the services of the options: two names, each with a function or with a
\* value that is no function
ServiceValues == {"function", "object"}

\* the options a caller hands to CreateLibrary or CreateApplication
Options ==
  [name : {"", "made"},
   services : [{"s1", "s2"} -> ServiceValues],
   priorityInit : UNION {[1..n -> {"s1", "s2"}] : n \in 0..MaxPriority}]

\* ValidateLibrary: the code of the exception it throws, "" when it returns
ValidateLibrary(project, serviceList) ==
  IF project = "" THEN "MISSING_LIBRARY_NAME"
  ELSE IF \E x \in DOMAIN serviceList : serviceList[x] # "function"
       THEN "INVALID_SERVICE_DEFINITION"
       ELSE ""

\* CreateLibrary: ValidateLibrary, then the definition is built and returned
CreateLibrary(options) ==
  LET error == ValidateLibrary(options.name, options.services)
  IN [creator |-> "CreateLibrary", options |-> options, thrown |-> error,
      returned |-> error = ""]

\* CreateApplication: the definition is built and returned
CreateApplication(options) ==
  [creator |-> "CreateApplication", options |-> options, thrown |-> "", returned |-> TRUE]

\* a call of CreateLibrary or CreateApplication
CreateDefinition(options) ==
  /\ Len(definitions) < MaxDefinitions
  /\ \E made \in {CreateLibrary(options), CreateApplication(options)} :
       definitions' = Append(definitions, made)

NextCreate ==
  (\E options \in Options : CreateDefinition(options))
    /\ UNCHANGED <<kernelVars, scenario, plan, schedVars, configVars, serverVars, slidingVars, loaderVars>>

\* ----------------------------------------------------------- configuration
\* the wiring of a module calls LOAD_PROJECT
LoadProject(module) ==
  /\ configured < Len(ConfigSteps)
  /\ ConfigSteps[configured + 1] = module
  /\ configuration' = LOAD_PROJECT(configuration, module)
  /\ configured' = configured + 1
  /\ UNCHANGED <<supplied, watchers, lastSet>>

\* Bootstrap, the application wired: internal.config.merge(options.configuration)
\* unless it is empty
MergeOptions ==
  /\ configured < Len(ConfigSteps)
  /\ ConfigSteps[configured + 1] = "bootstrap"
  /\ configuration' = IF supplied["bootstrap"] = {} THEN configuration
                      ELSE merge(configuration, supplied["bootstrap"], "bootstrap")
  /\ configured' = configured + 1
  /\ UNCHANGED <<supplied, watchers, lastSet>>

\* INITIALIZE, after the PreInit stage: the next loader runs and what it
\* produces is merged
Loader(source) ==
  /\ configured < Len(ConfigSteps)
  /\ ConfigSteps[configured + 1] = source
  /\ configuration' = merge(configuration, supplied[source], source)
  /\ configured' = configured + 1
  /\ UNCHANGED <<supplied, watchers, lastSet>>

\* the filters a caller passes to onUpdate: "" for none
FilterModules == {"", "boilerplate"}
FilterKeys == {"", "config", "CONFIG"}

\* the arguments a caller passes to set
SetModules == {"boilerplate", "app", "test"}
SetKeys == {"CONFIG", "LOG_LEVEL"}
SetValues == {"v1", "v2"}

\* the filter of a watcher lets the set of (module, key) through: each of its
\* two parts is absent or equal to what was set
Matches(w, module, key) ==
  /\ w.module = "" \/ w.module = module
  /\ w.key = "" \/ w.key = key

\* configuration.onUpdate(callback, module, key)
OnUpdate(module, key) ==
  /\ Len(watchers) < MaxWatchers
  /\ watchers' = Append(watchers, [module |-> module, key |-> key])
  /\ UNCHANGED <<configuration, supplied, configured, lastSet>>

\* the watchers a set of (module, key) invokes, in the order of registration
Invoked(module, key) ==
  LET F[i \in 0..Len(watchers)] ==
        IF i = 0 THEN <<>>
        ELSE IF Matches(watchers[i], module, key) THEN Append(F[i - 1], i) ELSE F[i - 1]
  IN F[Len(watchers)]

\* configuration.set(module, key, value): an unknown (module, key) is
\* rejected; else the value is written and then the watchers are invoked
Set(module, key, value) ==
  /\ IF <<module, key>> \in ConfigKeys /\ configuration[<<module, key>>] # "undeclared"
     THEN LET written == [configuration EXCEPT ![<<module, key>>] = value]
              order == Invoked(module, key)
          IN /\ configuration' = written
             /\ lastSet' = [args |-> <<module, key, value>>, threw |-> FALSE,
                            got |-> written[<<module, key>>], watching |-> Len(watchers),
                            invoked |-> [n \in 1..Len(order) |->
                                           [watcher |-> order[n],
                                            saw |-> written[<<module, key>>]]]]
     ELSE /\ lastSet' = [args |-> <<module, key, value>>, threw |-> TRUE, got |-> "",
                         watching |-> Len(watchers), invoked |-> <<>>]
          /\ UNCHANGED configuration
  /\ UNCHANGED <<supplied, configured, watchers>>

NextLoad ==
  /\ \/ \E module \in {"boilerplate", "app"} : LoadProject(module)
     \/ MergeOptions
     \/ \E source \in Loaders : Loader(source)
  /\ UNCHANGED <<kernelVars, scenario, plan, schedVars, creatorVars, serverVars, slidingVars, loaderVars>>

NextWatch ==
  /\ \/ \E module \in FilterModules, key \in FilterKeys : OnUpdate(module, key)
     \/ \E module \in SetModules, key \in SetKeys, value \in SetValues : Set(module, key, value)
  /\ UNCHANGED <<kernelVars, scenario, plan, schedVars, creatorVars, serverVars, slidingVars, loaderVars>>

\* --------------------------------------------------------- server bindings
\* Server_Bindings (src/libs/server/src/extensions/bindings.extension.mts): the
\* variables of its closure, its three lifecycle callbacks, and configure and
\* setServer of the object it returns.
\* the servers a caller passes to setServer, the options it passes to configure
GivenServers == {"given1", "given2"}
ServerOptions == {"options1", "options2"}

\* what PostConfig finds configured: no SSL paths, both files there, or one
\* of them missing; the PORT, 0 when there is none
SslStates == {"none", "files", "noKey", "noCert"}
Ports == {0, 8080}

\* initServer: the exception it throws, or the server fastify() makes
initServer(ssl) ==
  CASE ssl = "noKey" -> [error |-> "MISSING_SSL_KEYFILE", server |-> "undefined"]
    [] ssl = "noCert" -> [error |-> "MISSING_SSL_CERTFILE", server |-> "undefined"]
    [] OTHER -> [error |-> "", server |-> "fastify"]

ServerAlive == serverPhase # "failed"

\* a call of configure or setServer, as the history keeps it
ServerCall(op, arg, error, changed) ==
  [op |-> op, arg |-> arg, threw |-> error, early |-> serverPhase = "constructed",
   changed |-> changed]

\* configure(options)
configure(options) ==
  /\ ServerAlive
  /\ Len(serverLog.calls) < MaxServerCalls
  /\ IF httpServer # "undefined"
     THEN /\ serverLog' = [serverLog EXCEPT !.calls =
                             Append(@, ServerCall("configure", options, "LATE_CONFIGURE", FALSE))]
          /\ UNCHANGED extraOptions
     ELSE /\ extraOptions' = options
          /\ serverLog' = [serverLog EXCEPT !.calls =
                             Append(@, ServerCall("configure", options, "", extraOptions # options))]
  /\ UNCHANGED <<httpServer, port, outObject, serverPhase>>

\* setServer(server)
setServer(server) ==
  /\ ServerAlive
  /\ Len(serverLog.calls) < MaxServerCalls
  /\ IF httpServer # "undefined"
     THEN /\ serverLog' = [serverLog EXCEPT !.calls =
                             Append(@, ServerCall("setServer", server, "LATE_SERVER_REGISTER", FALSE))]
          /\ UNCHANGED <<httpServer, outObject>>
     ELSE /\ httpServer' = server
          /\ outObject' = [outObject EXCEPT !.httpServer = server]
          /\ serverLog' = [serverLog EXCEPT !.calls =
                             Append(@, ServerCall("setServer", server, "", httpServer # server))]
  /\ UNCHANGED <<extraOptions, port, serverPhase>>

\* the callback given to lifecycle.onPostConfig: the configuration is read,
\* httpServer = initServer(); an exception of initServer ends the bootstrap
onPostConfig(ssl, p) ==
  /\ serverPhase = "constructed"
  /\ port' = p
  /\ LET made == initServer(ssl)
     IN IF made.error # ""
        THEN /\ serverPhase' = "failed"
             /\ UNCHANGED <<httpServer, outObject>>
        ELSE /\ serverPhase' = "PostConfig"
             /\ httpServer' = made.server
             /\ outObject' = [outObject EXCEPT !.httpServer = made.server]
  /\ UNCHANGED <<extraOptions, serverLog>>

\* the callback given to lifecycle.onReady: httpServer.listen if there is a port
onReady ==
  /\ serverPhase = "PostConfig"
  /\ serverPhase' = "Ready"
  /\ serverLog' = IF port # 0 THEN [serverLog EXCEPT !.listening = httpServer] ELSE serverLog
  /\ UNCHANGED <<httpServer, extraOptions, port, outObject>>

\* the callback given to lifecycle.onShutdownStart: httpServer.close()
onShutdownStart ==
  /\ serverPhase = "Ready"
  /\ serverPhase' = "ShutdownStart"
  /\ serverLog' = [serverLog EXCEPT !.closed = httpServer]
  /\ UNCHANGED <<httpServer, extraOptions, port, outObject>>

StepServer ==
  \/ \E options \in ServerOptions : configure(options)
  \/ \E server \in GivenServers : setServer(server)
  \/ \E ssl \in SslStates, p \in Ports : onPostConfig(ssl, p)
  \/ onReady
  \/ onShutdownStart

NextServer ==
  StepServer /\ UNCHANGED <<kernelVars, scenario, plan, schedVars, creatorVars, configVars, slidingVars, loaderVars>>

\* ------------------------------------------------------- sliding schedules
\* sliding of ZCC_Scheduler (src/src/boilerplate/extensions/scheduler.extension.ts):
\* a cron job on the reset schedule whose exec asks next() for the time of the
\* execution and sets a one-shot timer for it.
\* the exec given to cron, next() returning r: if (timeout), warn and
\* clearTimeout; nothing more for no time; a warning for a time that has
\* passed; setTimeout for a time to come.  last keeps what this tick found
\* and did: whether it logged "retrieving next execution time before previous
\* ran", whether the timer held was pending, what next() returned, and
\* whether it logged "cannot schedule sliding schedules for the past".
resetExec(sl, r) ==
  [sl EXCEPT !.timers = (IF sl.timeout = "pending" THEN @ - 1 ELSE @) +
                        (IF r = "future" THEN 1 ELSE 0),
             !.timeout = IF r = "future" THEN "pending"
                         ELSE IF @ = "undefined" THEN "undefined" ELSE "stale",
             !.last = [warned |-> sl.timeout # "undefined", pending |-> sl.timeout = "pending",
                       next |-> r, past |-> r = "past"]]

\* scheduler.sliding(...): cron(...) schedules the job, which node-cron
\* starts, attaches its onReady callback and adds its stopFunction to stop
SlidingCreate ==
  /\ sliding.cronJob = "none"
  /\ sliding.phase # "ShutdownStart"
  /\ sliding' = [sliding EXCEPT !.cronJob = "started", !.inStop = TRUE,
                                 !.onReady = IF sliding.phase = "wiring" THEN "listed"
                                             ELSE "queued"]

\* RunStageCallbacks("Ready"): cronJob.start() if the callback is in the list
SlidingReady ==
  /\ sliding.phase = "wiring"
  /\ sliding' = [sliding EXCEPT !.phase = "Ready",
                                 !.cronJob = IF sliding.onReady = "listed" THEN "started" ELSE @,
                                 !.onReady = IF @ = "listed" THEN "done" ELSE @]

\* the onReady callback handed to setImmediate runs: cronJob.start()
SlidingImmediate ==
  /\ sliding.onReady = "queued"
  /\ sliding' = [sliding EXCEPT !.cronJob = "started", !.onReady = "done"]

\* the cron job ticks on the reset schedule
ResetTick(r) ==
  /\ sliding.cronJob = "started"
  /\ sliding' = resetExec(sliding, r)

\* the one-shot timer fires: exec; timeout keeps the handle
SlidingFire ==
  /\ sliding.timers > 0
  /\ sliding.fired < MaxExecs
  /\ sliding' = [sliding EXCEPT !.timers = @ - 1, !.fired = @ + 1,
                                 !.timeout = IF sliding.timers = 1 /\ @ = "pending"
                                             THEN "stale" ELSE @]

\* the function sliding returned: scheduleStop(), and clearTimeout if (timeout)
SlidingCancel ==
  /\ sliding.cronJob # "none"
  /\ sliding' = [sliding EXCEPT !.cronJob = "stopped",
                                 !.timers = IF sliding.timeout = "pending" THEN @ - 1 ELSE @,
                                 !.timeout = "undefined"]

\* the onShutdownStart callback of ZCC_Scheduler: every stopFunction of stop
SlidingShutdownStart ==
  /\ sliding.phase = "Ready"
  /\ sliding' = [sliding EXCEPT !.phase = "ShutdownStart",
                                 !.cronJob = IF sliding.inStop THEN "stopped" ELSE @,
                                 !.inStop = FALSE]

StepSliding ==
  \/ SlidingCreate
  \/ SlidingReady
  \/ SlidingImmediate
  \/ \E r \in NextResults : ResetTick(r)
  \/ SlidingFire
  \/ SlidingCancel
  \/ SlidingShutdownStart

NextSliding ==
  StepSliding /\ UNCHANGED <<kernelVars, scenario, plan, schedVars, creatorVars, configVars, serverVars,
                             loaderVars>>

\* ------------------------------------------------------------ specification
Step ==
  \/ \E a \in AllApps : BootstrapCall(a)
  \/ StartModule
  \/ WireNext
  \/ FactoryResolve
  \/ ModuleDone
  \/ BootAfterStage
  \/ ConfigureDone
  \/ \E t \in Tasks : RunModule(t)
  \/ \E t \in Tasks : RunSorted(t)
  \/ \E inv \in running : CallbackResolve(inv)
  \/ RunImmediate
  \/ \E lc \in DOMAIN childCallbacks, stage \in Stages, priority \in Priorities :
       Attach(lc, stage, priority # NONE, priority)
  \/ \E a \in Apps : TeardownCall(a)
  \/ \E t \in TdTasks : TdAfterStage(t)

Next == Step /\ UNCHANGED <<scenario, plan, schedVars, creatorVars, supplied, configured, watchers, lastSet, serverVars, slidingVars, loaderVars>>

\* the steps of a bootstrap of an application to which no callback is attached
StepPlan ==
  \/ BootstrapCall(PlanApp)
  \/ StartModule
  \/ WireNext
  \/ FactoryResolve
  \/ ModuleDone
  \/ BootAfterStage
  \/ ConfigureDone
  \/ RunModule("boot")

\* the steps of the kernel, with the failures of the code around it and the
\* signals
StepFaults ==
  \/ Step
  \/ FactoryReject
  \/ \E inv \in running : CallbackReject(inv)
  \/ \E sig \in Signals : Signal(sig)

NextFaults == StepFaults /\ UNCHANGED <<scenario, plan, schedVars, creatorVars, supplied, configured, watchers, lastSet, serverVars, slidingVars, loaderVars>>

\* the steps of a bootstrap, with the callbacks attached to it
StepRequired ==
  \/ BootstrapCall(PlanApp)
  \/ StartModule
  \/ WireNext
  \/ FactoryResolve
  \/ ModuleDone
  \/ BootAfterStage
  \/ ConfigureDone
  \/ RunModule("boot")
  \/ RunSorted("boot")
  \/ \E inv \in running : CallbackResolve(inv)
  \/ RunImmediate
  \/ \E lc \in DOMAIN childCallbacks, stage \in Stages, priority \in Priorities :
       Attach(lc, stage, priority # NONE, priority)

NextRequired ==
  StepRequired /\ UNCHANGED <<scenario, plan, schedVars, creatorVars, supplied, configured, watchers, lastSet, serverVars, slidingVars, loaderVars>>

\* the steps of a bootstrap, with callbacks attached with any priority a
\* caller can pass, or with none
StepPriority ==
  \/ \E a \in Apps : BootstrapCall(a)
  \/ StartModule
  \/ WireNext
  \/ FactoryResolve
  \/ ModuleDone
  \/ BootAfterStage
  \/ ConfigureDone
  \/ RunModule("boot")
  \/ RunSorted("boot")
  \/ \E inv \in running : CallbackResolve(inv)
  \/ RunImmediate
  \/ \E lc \in DOMAIN childCallbacks, stage \in Stages, given \in BOOLEAN, value \in Priorities :
       Attach(lc, stage, given, value)

NextPriority ==
  StepPriority /\ UNCHANGED <<scenario, plan, schedVars, creatorVars, supplied, configured, watchers, lastSet, serverVars, slidingVars, loaderVars>>

NextPlan == StepPlan /\ UNCHANGED <<scenario, plan, schedVars, creatorVars, supplied, configured, watchers, lastSet, serverVars, slidingVars, loaderVars>>

Spec == Init /\ [][Next]_vars

SpecCalls == InitCalls /\ [][Next]_vars

SpecTeardown == InitTeardown /\ [][Next]_vars

SpecPlan == InitPlan /\ [][NextPlan]_vars

SpecScheduler == InitScheduler /\ [][NextScheduler]_vars

SpecWire == InitWire /\ [][NextPlan]_vars

SpecCreate == InitCreate /\ [][NextCreate]_vars

SpecFaults == InitFaults /\ [][NextFaults]_vars

SpecLoad == InitLoad /\ [][NextLoad]_vars

SpecWatch == InitWatch /\ [][NextWatch]_vars

SpecRequired == InitRequired /\ [][NextRequired]_vars

SpecServer == InitServer /\ [][NextServer]_vars

SpecSliding == InitSliding /\ [][NextSliding]_vars

SpecPriority == InitPriority /\ [][NextPriority]_vars

SpecEnvironment == InitEnvironment /\ [][NextEnvironment]_vars

\* ------------------------------------------------------------------ claims
Callbacks == 1..Len(registered)

\* the callbacks in the list of a lifecycle for a stage
ListedIn(lc, stage) ==
  {childCallbacks[lc][stage][k][1] : k \in 1..Len(childCallbacks[lc][stage])}

\* the callbacks that were put in a stage list
Listed == {c \in Callbacks : registered[c].how = "listed"}

\* PreInit has begun: its run has started, or a callback attached for it has
\* been invoked
PreInitBegun ==
  \/ boot.app # "none" /\ boot.pc \in {"stage", "configure", "idle"}
  \/ \E c \in Callbacks : registered[c].stage = "PreInit" /\ started[c] > 0

\* C1: no service factory is ever invoked twice, and from the moment PreInit
\* begins (so before any PreInit callback runs, hence before Ready) the factory
\* of every service of every module of the plan -- boilerplate, each library,
\* the application -- has been invoked exactly once.
C1_FactoriesOnceBeforePreInit ==
  /\ \A s \in AllServices : factoryCalls[s] <= 1
  /\ PreInitBegun => \A s \in PlanServices(boot.app) : factoryCalls[s] = 1

\* application A is booted, a PreInit callback of A has run, every factory of
\* the plan has been invoked once
C1_Witness ==
  /\ ACTIVE_APPLICATION = "A"
  /\ \E c \in Callbacks :
       /\ registered[c].stage = "PreInit"
       /\ registered[c].lc = Lifecycle("A", 0)
       /\ resolved[c] = 1
  /\ \A s \in PlanServices("A") : factoryCalls[s] = 1

\* C5: while a callback of a library or of the application, invoked by the
\* run of a stage, is pending, every callback in boilerplate's list for that
\* stage has been invoked and no invocation of it is pending; and the
\* callbacks pending in the runs of one stage all belong to one module.
C5_BoilerplateFirst ==
  \A inv \in running :
    inv.task \in Tasks =>
      /\ registered[inv.cb].lc.owner # "boilerplate" =>
           \A b \in Listed :
             (registered[b].stage = registered[inv.cb].stage
                /\ registered[b].lc.owner = "boilerplate") =>
               /\ resolved[b] >= 1
               /\ \A other \in running : other.cb # b
      /\ \A other \in running :
           (other.task \in Tasks /\ registered[other.cb].stage = registered[inv.cb].stage) =>
             registered[other.cb].lc = registered[inv.cb].lc

\* the callbacks waiting in the setImmediate queue
Queued == {immediates[k] : k \in 1..Len(immediates)}

\* C6: a callback attached for a stage that is in completedLifecycleCallbacks
\* is in no stage list.  For PreInit, PostConfig, Bootstrap and Ready it is
\* handed to setImmediate once: it waits in the queue until it is invoked, is
\* invoked at most once, and nothing is logged as fatal or thrown for it.  For
\* ShutdownStart and ShutdownComplete it is never queued and never invoked,
\* and a fatal message is logged.
C6_LateAttach ==
  \A c \in Callbacks :
    registered[c].late =>
      /\ \A lc \in DOMAIN childCallbacks, st \in Stages : c \notin ListedIn(lc, st)
      /\ IF registered[c].stage \in {"PreInit", "PostConfig", "Bootstrap", "Ready"}
         THEN /\ started[c] <= 1
              /\ (started[c] = 0) <=> (c \in Queued)
              /\ Cardinality({k \in 1..Len(immediates) : immediates[k] = c}) <= 1
              /\ \A f \in fatalLog : f.id # c
              /\ thrown = {}
         ELSE /\ started[c] = 0
              /\ c \notin Queued
              /\ [msg |-> "late attach, cannot attach callback", id |-> c] \in fatalLog

\* a callback attached late for a boot stage has been invoked, once
C6_Witness ==
  \E c \in Callbacks :
    /\ registered[c].late
    /\ registered[c].stage \in {"PreInit", "PostConfig", "Bootstrap", "Ready"}
    /\ started[c] = 1
    /\ resolved[c] = 1

\* position of a stage in LIFECYCLE_STAGES
StageIndex(stage) == CHOOSE i \in 1..Len(LIFECYCLE_STAGES) : LIFECYCLE_STAGES[i] = stage

\* C2: the stages begin in the order PreInit, PostConfig, Bootstrap, Ready,
\* ShutdownStart, ShutdownComplete, and a stage has not begun unless every
\* callback in the lists of the stage before it, of every wired module, has
\* been invoked and has resolved.
C2_StagesInOrder ==
  /\ \A i \in 2..Len(LIFECYCLE_STAGES) :
       LIFECYCLE_STAGES[i] \in completedLifecycleCallbacks =>
         LIFECYCLE_STAGES[i - 1] \in completedLifecycleCallbacks
  /\ \A c \in Listed :
       LET i == StageIndex(registered[c].stage)
       IN (i < Len(LIFECYCLE_STAGES) /\ LIFECYCLE_STAGES[i + 1] \in completedLifecycleCallbacks) =>
            /\ resolved[c] >= 1
            /\ \A inv \in running : inv.cb # c

\* C3: a callback attached for a stage before the run of that stage has
\* returned has been invoked by the time the run has returned.
C3_AttachedBeforeEndRuns ==
  \A c \in Callbacks :
    (registered[c].open /\ registered[c].stage \in finishedStages) => started[c] >= 1

\* C4: while a run has a callback of a module pending, every callback of the
\* same module and stage that comes before it has resolved in that run: a
\* prioritized one comes before every unordered one, a lower priority before
\* a higher one, and of two equal priorities the one attached first.
Before(d, c) ==
  /\ registered[d].priority # NONE
  /\ \/ registered[c].priority = NONE
     \/ registered[d].priority < registered[c].priority
     \/ registered[d].priority = registered[c].priority /\ d < c

C4_PriorityOrder ==
  \A inv \in running :
    inv.task \in Tasks =>
      \A d \in ListedIn(registered[inv.cb].lc, registered[inv.cb].stage) :
        Before(d, inv.cb) =>
          /\ resolved[d] >= 1
          /\ [task |-> inv.task, cb |-> d] \notin running

\* application a has called bootstrap() and has not been torn down since
InFlightOrBooted(a) == boot.app = a /\ (boot.pc # "idle" \/ booted[a])

\* application a was booted and its teardown() has completed
TornDown(a) ==
  /\ boot.app = a
  /\ boot.pc = "idle"
  /\ ~booted[a]
  /\ ACTIVE_APPLICATION = "none"
  /\ "ShutdownComplete" \in finishedStages
  /\ \A t \in TdTasks : td[t].pc = "idle"

\* C7: bootstrap() of an application b, called after another application a has
\* called bootstrap() and before a is torn down, throws NO_DUAL_BOOT, invokes no
\* factory and leaves internal, the loaded modules and the lifecycles as they
\* were.
C7_NoDualBoot ==
  [][\A a, b \in Apps :
       (a # b /\ InFlightOrBooted(a) /\ BootstrapCall(b)) =>
         /\ <<b, "NO_DUAL_BOOT">> \in thrown'
         /\ proc' = "running"
         /\ UNCHANGED <<internal, LIB_BOILERPLATE, MODULE_MAPPINGS, LOADED_MODULES,
                        LOADED_LIFECYCLES, factoryCalls>>]_vars

\* C8: bootstrap() of an application that has called bootstrap() and has not
\* been torn down since throws DOUBLE_BOOT, invokes no factory and no callback
\* and leaves the first boot as it was.
C8_DoubleBoot ==
  [][\A a \in Apps :
       (InFlightOrBooted(a) /\ BootstrapCall(a)) =>
         /\ <<a, "DOUBLE_BOOT">> \in thrown'
         /\ proc' = "running"
         /\ UNCHANGED <<ACTIVE_APPLICATION, internal, boot, factoryCalls, started>>]_vars

\* C9: bootstrap() of an application that was booted and torn down starts a
\* new boot of it: the process goes on and the modules are wired again.
C9_BootAgain ==
  [][\A a \in Apps :
       (TornDown(a) /\ BootstrapCall(a)) =>
         /\ proc' = "running"
         /\ exitCause' = ""
         /\ boot'.app = a
         /\ boot'.pc = "module"]_vars

\* C10: once teardown() has returned, every callback in the ShutdownStart and
\* ShutdownComplete lists has been invoked and has resolved, ShutdownComplete
\* did not begin before those of ShutdownStart had, no application is active,
\* completedLifecycleCallbacks is empty, the signal handlers are detached and
\* booted is false.
C10_Teardown ==
  /\ "ShutdownComplete" \in completedLifecycleCallbacks =>
       \A c \in Listed : registered[c].stage = "ShutdownStart" => resolved[c] >= 1
  /\ "ShutdownComplete" \in finishedStages =>
       /\ \A c \in Listed :
            registered[c].stage \in {"ShutdownStart", "ShutdownComplete"} => resolved[c] >= 1
       /\ ACTIVE_APPLICATION = "none"
       /\ completedLifecycleCallbacks = {}
       /\ processListeners = 0
       /\ \A a \in Apps : ~booted[a]

\* C11: teardown() called while no application is active throws nothing,
\* invokes no callback and leaves the wiring state as it was.
C11_TeardownInactive ==
  [][\A a \in Apps :
       (ACTIVE_APPLICATION = "none" /\ TeardownCall(a)) =>
         /\ thrown' = thrown
         /\ proc' = "running"
         /\ UNCHANGED <<started, wiringVars, ACTIVE_APPLICATION, completedLifecycleCallbacks,
                        cbVars, taskVars>>]_vars

\* the services whose factory was invoked before the k-th invocation
WiredBefore(k) == {wiredLog[j].key : j \in 1..(k - 1)}

\* C18: when a factory is invoked, its parameter bundle exposes the resolved
\* APIs of exactly the services whose factory was invoked before it -- every
\* service of the modules wired earlier and the earlier services of its own
\* module -- and of no other service.
C18_ParamsExposeEarlier ==
  \A k \in 1..Len(wiredLog) : wiredLog[k].params = WiredBefore(k)

\* every depends of every library of the list is a library of the list
Satisfiable(pl) == \A l \in Range(pl.libraries) : pl.depends[l] \subseteq Range(pl.libraries)

\* the arrangements of the libraries list, each library once, in which every
\* library stands after all of its depends
DependsOrders(pl) ==
  LET n == Len(pl.libraries)
  IN {o \in [1..n -> Range(pl.libraries)] :
        /\ IsUnique(o)
        /\ \A i \in 1..n : pl.depends[o[i]] \subseteq {o[j] : j \in 1..(i - 1)}}

\* no library depends on itself, directly or through other libraries
Acyclic(pl) == DependsOrders(pl) # {}

\* the services of the modules of a list, module after module, each module's
\* in its wiring order
ServicesInOrder(mods) ==
  LET F[i \in 0..Len(mods)] ==
        IF i = 0 THEN <<>>
        ELSE LET order == WireOrder(ModPriorityInit(mods[i]), ModServices(mods[i]))
             IN F[i - 1] \o [k \in 1..Len(order) |-> <<ModName(mods[i]), order[k]>>]
  IN F[Len(mods)]

\* C19: for an application whose libraries' depends are all libraries of the
\* application and free of cycles, once boilerplate is wired and BuildSortOrder
\* has been called, it has returned every library once, each after all of its
\* depends; the factories are invoked in the order boilerplate, the libraries
\* in that order, the application, every factory after all earlier ones have
\* resolved; and PreInit begins after all of them.
C19_LibrariesInDependsOrder ==
  (Satisfiable(plan) /\ Acyclic(plan) /\ internal.wired) =>
    LET sort == BuildSortOrder(PlanApp)
        wiring == ServicesInOrder(<<"boilerplate">> \o sort.order \o <<PlanApp>>)
    IN /\ sort.error = ""
       /\ sort.order \in DependsOrders(plan)
       /\ Len(wiredLog) <= Len(wiring)
       /\ \A k \in 1..Len(wiredLog) :
            /\ wiredLog[k].key = wiring[k]
            /\ wiredLog[k].loaded = WiredBefore(k)
       /\ PreInitBegun => Len(wiredLog) = Len(wiring)

\* C20: when a library of the application has a depends that is not a library
\* of the application, the bootstrap ends with MISSING_DEPENDENCY once
\* boilerplate is wired; when all depends are libraries of the application and
\* some library depends on itself, directly or through others, it ends with
\* BAD_SORT; and in both cases only factories of boilerplate are ever invoked
\* and no stage begins.
C20_PlanErrors ==
  /\ (~Satisfiable(plan) /\ internal.wired) =>
       (proc = "exited" /\ exitCause = "MISSING_DEPENDENCY")
  /\ (Satisfiable(plan) /\ ~Acyclic(plan) /\ internal.wired) =>
       (proc = "exited" /\ exitCause = "BAD_SORT")
  /\ ~(Satisfiable(plan) /\ Acyclic(plan)) =>
       /\ \A k \in 1..Len(wiredLog) : wiredLog[k].key[1] = "boilerplate"
       /\ completedLifecycleCallbacks = {}
       /\ ~PreInitBegun

\* a timer callback invokes the exec of schedule s in this step
ExecStarts(s) == s \in DOMAIN schedules /\ schedules'[s].inflight > schedules[s].inflight

\* C12: once Teardown has returned, no exec of a cron, interval or sliding
\* schedule is invoked any more, whenever the schedule was created or
\* cancelled.
C12_NoExecAfterTeardown ==
  [][\A s \in 1..MaxSchedules : ExecStarts(s) => phase # "down"]_vars

\* C13: once the cancel function of a schedule has been called, at whatever
\* point of the lifecycle, the exec of the schedule is not invoked again.
C13_NoExecAfterCancel ==
  [][\A s \in 1..MaxSchedules : ExecStarts(s) => ~schedules[s].cancelled]_vars

\* C14: in every state the scheduler reaches -- before Ready, after Ready,
\* after shutdown has called the stop functions -- calling the cancel function
\* of a schedule again after a call of it changes nothing: the job, the
\* interval and the one-shot of the schedule are as the first call left them.
C14_CancelIdempotent ==
  \A s \in DOMAIN schedules : cancel(cancel(schedules[s])) = cancel(schedules[s])

\* Teardown has returned, shutdown has called the stop function of a schedule,
\* the cancel function of the schedule has been called and the schedule is as
\* that call left it: the state in which it is called once more
C14_Witness ==
  \E s \in DOMAIN schedules :
    /\ schedules[s].cancelled
    /\ cancel(schedules[s]) = schedules[s]
    /\ s \notin stop
    /\ phase = "down"

\* C15: the exec of a schedule created during wiring is not invoked before
\* the Ready stage runs.
C15_NoExecBeforeReady ==
  [][\A s \in 1..MaxSchedules : (ExecStarts(s) /\ schedules[s].early) => phase # "wiring"]_vars

\* C16: ShutdownStart begins only after the PreShutdown callback of the
\* scheduler has run; when that callback has finished, the stop function of
\* every schedule created so far has been called and the stop set is empty;
\* and from the beginning of ShutdownStart on no exec of a cron or interval
\* schedule is invoked.
C16_QuietAfterPreShutdown ==
  [][/\ phase' = "ShutdownStart" => phase \in {"PreShutdown", "ShutdownStart"}
     /\ (phase = "running" /\ phase' = "PreShutdown") =>
          /\ stop' = {}
          /\ \A s \in DOMAIN schedules :
               /\ schedules'[s].cronJob # "started"
               /\ schedules'[s].runningInterval # "active"
     /\ \A s \in 1..MaxSchedules :
          (ExecStarts(s) /\ schedules[s].kind \in {"cron", "interval"}) =>
            phase \in {"wiring", "running", "PreShutdown"}]_vars

\* C17: no failure of an exec reaches the timer runtime or ends the process,
\* and a failure stops no timer: unless the schedule was cancelled or stopped
\* by shutdown, its cron job is still started and its interval, once the
\* Ready callback has set it, still active.
C17_FailuresCaught ==
  /\ ~uncaught
  /\ proc = "running"
  /\ \A s \in DOMAIN schedules :
       (schedules[s].failed /\ ~schedules[s].cancelled /\ s \in stop) =>
         /\ schedules[s].kind # "interval" => schedules[s].cronJob = "started"
         /\ (schedules[s].kind = "interval" /\ schedules[s].onReady = "done") =>
              schedules[s].runningInterval = "active"

\* an exec of a schedule has failed and was logged, and a later tick of the
\* same schedule has invoked exec again
C17_Witness ==
  \E s \in DOMAIN schedules : schedules[s].failed /\ schedules[s].afterFail

\* the services of module m whose factory has been invoked, in that order
WiredOf(m) ==
  LET F[k \in 0..Len(wiredLog)] ==
        IF k = 0 THEN <<>>
        ELSE IF wiredLog[k].key[1] = ModName(m) THEN Append(F[k - 1], wiredLog[k].key[2])
             ELSE F[k - 1]
  IN F[Len(wiredLog)]

\* position of a service in a duplicate-free list
IndexIn(list, x) == CHOOSE i \in 1..Len(list) : list[i] = x

\* C21: WireOrder(priorityInit, services) begins with priorityInit as given and
\* goes on with exactly the services that are not in priorityInit, each once,
\* in the order of their declaration; when priorityInit is a duplicate-free
\* list of services every service is in it exactly once, and the factories of
\* the module are invoked in that order; when priorityInit has a duplicate,
\* wiring the module ends with DOUBLE_PRIORITY and no service of the module
\* is wired.
C21_WireOrder ==
  LET priority == ModPriorityInit("p")
      services == ModServices("p")
      order == WireOrder(priority, services)
      rest == SubSeq(order, Len(priority) + 1, Len(order))
  IN /\ Len(order) >= Len(priority)
     /\ SubSeq(order, 1, Len(priority)) = priority
     /\ Range(rest) = Range(services) \ Range(priority)
     /\ IsUnique(rest)
     /\ \A i, j \in 1..Len(rest) :
          i < j => IndexIn(services, rest[i]) < IndexIn(services, rest[j])
     /\ (IsUnique(priority) /\ Range(priority) \subseteq Range(services)) =>
          /\ Len(order) = Len(services)
          /\ \A x \in Range(services) : Cardinality({k \in 1..Len(order) : order[k] = x}) = 1
     /\ IsUnique(priority) =>
          /\ Len(WiredOf("p")) <= Len(order)
          /\ WiredOf("p") = SubSeq(order, 1, Len(WiredOf("p")))
          /\ exitCause # "DOUBLE_PRIORITY"
     /\ ~IsUnique(priority) =>
          /\ WiredOf("p") = <<>>
          /\ \A x \in PriorityNames : <<"p", x>> \notin MODULE_MAPPINGS
          /\ MapHas(LOADED_LIFECYCLES, "p") => (proc = "exited" /\ exitCause = "DOUBLE_PRIORITY")

\* library p with priorityInit <<p2>> is wired, p2 first and p1 after it, and
\* the application is booted
C21_Witness ==
  /\ plan.priorityInit = <<"p2">>
  /\ WiredOf("p") = <<"p2", "p1">>
  /\ ACTIVE_APPLICATION = PlanApp

\* the exception the creators are to throw for options, "" for none
CreationError(options) ==
  IF options.name = "" THEN "MISSING_LIBRARY_NAME"
  ELSE IF \E x \in DOMAIN options.services : options.services[x] # "function"
       THEN "INVALID_SERVICE_DEFINITION"
       ELSE IF ~IsUnique(options.priorityInit) THEN "DOUBLE_PRIORITY" ELSE ""

\* C22: a call of CreateLibrary or CreateApplication with an empty name, with
\* a service that is no function or with a duplicate in priorityInit throws
\* MISSING_LIBRARY_NAME, INVALID_SERVICE_DEFINITION or DOUBLE_PRIORITY and
\* returns no definition.
C22_CreatorsValidate ==
  \A k \in 1..Len(definitions) :
    CreationError(definitions[k].options) # "" =>
      /\ definitions[k].thrown = CreationError(definitions[k].options)
      /\ ~definitions[k].returned

C24_SignalTeardown ==
  exitCause \in Signals =>
    /\ proc = "exited"
    /\ exitStatus = 0
    /\ {"ShutdownStart", "ShutdownComplete"} \subseteq finishedStages
    /\ \A c \in Listed :
         registered[c].stage \in {"ShutdownStart", "ShutdownComplete"} => resolved[c] >= 1

\* C25: when a callback invoked by a run of ShutdownStart or ShutdownComplete
\* fails, the failure is logged, nothing is thrown to the caller of teardown()
\* and the process goes on; the Teardown the run belongs to goes on as well,
\* and a Teardown ends only by clearing ACTIVE_APPLICATION and taking the
\* signal handlers off the process.
C25_ShutdownFailureCaught ==
  [][/\ \A inv \in running :
          (inv.task \in TdTasks /\ CallbackReject(inv)) =>
            /\ proc' = "running"
            /\ thrown' = thrown
            /\ errorLog' # errorLog
            /\ td'[inv.task].pc = "stage"
     /\ \A t \in TdTasks :
          (td[t].pc = "stage" /\ td'[t].pc = "idle") =>
            (ACTIVE_APPLICATION' = "none" /\ processListeners' = 0)]_vars

\* what ends a bootstrap with exit(): an error of the plan or of the wiring,
\* a failing factory, a failing callback of a stage Bootstrap runs
BootstrapFailures ==
  {"MISSING_DEPENDENCY", "BAD_SORT", "DOUBLE_PRIORITY", "DUPLICATE_SERVICE_NAME",
   "Initialization error", "callback error"}

\* C26: when a failure of the bootstrap has ended the process, the exit status
\* is not 0.
C26_BootstrapFailureStatus ==
  (proc = "exited" /\ exitCause \in BootstrapFailures) => exitStatus # 0

\* C27: while a callback attached for PreInit is running, INITIALIZE of this
\* bootstrap has not been called, so no loader has; when INITIALIZE is called
\* every PreInit callback has been invoked and has resolved; and while a
\* callback attached for PostConfig is running, INITIALIZE has resolved, so
\* every loader has been called.
C27_LoadersBetweenStages ==
  /\ \A inv \in running :
       /\ registered[inv.cb].stage = "PreInit" => loaders = "idle"
       /\ registered[inv.cb].stage = "PostConfig" => loaders = "done"
  /\ loaders # "idle" =>
       \A c \in Callbacks : registered[c].stage = "PreInit" => resolved[c] >= 1

\* the sources from the highest precedence to the lowest, the default last
Precedence == <<"bootstrap", "cli", "env", "file">>

\* the value of the highest-precedence source that supplies k
Effective(k) ==
  LET supplying == {i \in 1..Len(Precedence) : k \in supplied[Precedence[i]]}
  IN IF supplying = {} THEN Default(k)
     ELSE Precedence[CHOOSE i \in supplying : \A j \in supplying : i <= j]

Lower(key) ==
  CASE key = "CONFIG" -> "config"
    [] key = "LOG_LEVEL" -> "log_level"
    [] OTHER -> key

\* the filter of a watcher matches a set of (module, key): each part of it is
\* absent or names what was set, the key without regard to letter case
FilterMatches(w, module, key) ==
  /\ w.module = "" \/ w.module = module
  /\ w.key = "" \/ Lower(w.key) = Lower(key)

\* how many times the last set invoked watcher i
TimesInvoked(i) == Cardinality({n \in 1..Len(lastSet.invoked) : lastSet.invoked[n].watcher = i})

\* C29: a set(module, key, v) on a declared (module, key) does not throw, get
\* returns v after it, and it has invoked every watcher registered before it
\* whose filter matches exactly once, each one after the value was written
\* (get returned v to it), in the order of their registration.
C29_SetNotifies ==
  (lastSet.args # <<>> /\ <<lastSet.args[1], lastSet.args[2]>> \in ConfigKeys) =>
    /\ ~lastSet.threw
    /\ lastSet.got = lastSet.args[3]
    /\ configuration[<<lastSet.args[1], lastSet.args[2]>>] = lastSet.args[3]
    /\ \A i \in 1..lastSet.watching :
         FilterMatches(watchers[i], lastSet.args[1], lastSet.args[2]) => TimesInvoked(i) = 1
    /\ \A n \in 1..Len(lastSet.invoked) : lastSet.invoked[n].saw = lastSet.args[3]
    /\ \A n, o \in 1..Len(lastSet.invoked) :
         n < o => lastSet.invoked[n].watcher < lastSet.invoked[o].watcher

\* C30: a set(m, k, v) invokes a watcher registered with a module and a key,
\* once, if m is that module and k is that key without regard to letter case,
\* and does not invoke it otherwise.
C30_FilterIgnoresCase ==
  (lastSet.args # <<>> /\ ~lastSet.threw) =>
    \A i \in 1..lastSet.watching :
      (watchers[i].module # "" /\ watchers[i].key # "") =>
        TimesInvoked(i) =
          (IF watchers[i].module = lastSet.args[1] /\ Lower(watchers[i].key) = Lower(lastSet.args[2])
           THEN 1 ELSE 0)

\* the callbacks attached for the Ready stage
ReadyCallbacks == {c \in Callbacks : registered[c].stage = "Ready"}

\* a key declared with required: true has no value
RequiredAbsent == \E k \in RequiredKeys : configuration[k] = "undefined"

\* C31: when INITIALIZE has run the loaders and a key declared with required:
\* true has no value, neither from the bootstrap options nor from a loader,
\* an error has been printed and the process has ended, the Ready stage has
\* not begun and no Ready callback has been invoked.
C31_RequiredAborts ==
  (loaders = "done" /\ RequiredAbsent) =>
    /\ proc = "exited"
    /\ "is a required config" \in errorLog
    /\ "Ready" \notin completedLifecycleCallbacks
    /\ \A c \in ReadyCallbacks : started[c] = 0

\* the bootstrap was aborted for the required key, a Ready callback attached
C31_Witness ==
  /\ loaders = "done"
  /\ RequiredAbsent
  /\ proc = "exited"
  /\ exitCause = "required config"
  /\ \E c \in ReadyCallbacks : registered[c].how = "listed"

\* the calls of configure and setServer made so far
ServerCalls == {serverLog.calls[i] : i \in 1..Len(serverLog.calls)}

\* C32: a call of configure or setServer made before the PostConfig callback
\* has initialised the server does not throw, whatever calls came before it;
\* one made after it throws LATE_CONFIGURE, LATE_SERVER_REGISTER, and changes
\* neither the server nor the options.
C32_EarlyCallsSucceed ==
  \A call \in ServerCalls :
    /\ call.early => call.threw = ""
    /\ ~call.early =>
         /\ call.threw = (IF call.op = "configure" THEN "LATE_CONFIGURE"
                          ELSE "LATE_SERVER_REGISTER")
         /\ ~call.changed

\* C40: a server given to setServer before PostConfig is the server in use
\* from PostConfig on, the one that listens and the one that is closed.
C40_GivenServerKept ==
  \A call \in ServerCalls :
    (call.op = "setServer" /\ call.early /\ call.threw = ""
       /\ serverPhase \in {"PostConfig", "Ready", "ShutdownStart"}) =>
      /\ httpServer = call.arg
      /\ outObject.httpServer = call.arg
      /\ serverLog.listening \in {"none", call.arg}
      /\ serverLog.closed \in {"none", call.arg}

\* C33: the exec of the reset tick of a sliding schedule logs "retrieving
\* next execution time before previous ran" exactly when the one-shot timer
\* scheduled before is still pending, neither fired nor cancelled; a one-shot
\* is pending only after a next() that returned a time to come; and a pending
\* one-shot was cancelled before the new one was set.
C33_SlidingReset ==
  sliding.last # NoWait =>
    /\ sliding.last.warned <=> sliding.last.pending
    /\ sliding.timers > 0 => sliding.last.next = "future"
    /\ sliding.timers <= 1

\* the candidates of a list of keys that are named exactly as a line of search
ExactIn(keys) == Range(keys) \cap Range(search)

\* the candidates of a list of keys that a line of search matches
MatchingIn(keys) ==
  {key \in Range(keys) : \E i \in 1..Len(search) : LineMatches(search[i], key)}

\* C34: ConfigLoaderEnvironment takes the value of a switch when a switch
\* matches, of an environment variable otherwise; and in the source it takes
\* it from, the value of a candidate named exactly <prefix>_<key> or <key> when
\* there is one, of a candidate that matches without regard to case otherwise.
C34_ExactBeforeInsensitive ==
  environmentOut.source # "unloaded" =>
    LET keys == IF MatchingIn(switchKeys) # {} THEN switchKeys ELSE environmentKeys
    IN /\ environmentOut.source = (IF MatchingIn(switchKeys) # {} THEN "cli"
                           ELSE IF MatchingIn(environmentKeys) # {} THEN "env" ELSE "none")
       /\ ExactIn(keys) # {} => environmentOut.name \in ExactIn(keys)
       /\ (ExactIn(keys) = {} /\ MatchingIn(keys) # {}) => environmentOut.name \in MatchingIn(keys)

\* C35: once the run of a stage has returned, every callback that a module of
\* LOADED_LIFECYCLES had in its list for that stage before the stage began has
\* been invoked, whatever the name of the module.
C35_EveryNameRuns ==
  \A i \in 1..Len(LOADED_LIFECYCLES) :
    \A c \in Listed :
      (/\ registered[c].lc = LOADED_LIFECYCLES[i].lc
       /\ ~registered[c].late
       /\ registered[c].stage \in finishedStages) => started[c] >= 1

\* C36: a callback attached with a priority, -1 included, is invoked in
\* priority order among the prioritized ones and has resolved before a
\* callback of the same module and stage attached without a priority is
\* invoked.
C36_GivenPriorityOrdered ==
  \A c, d \in Listed :
    (/\ registered[c].lc = registered[d].lc
     /\ registered[c].stage = registered[d].stage
     /\ registered[c].given
     /\ \/ ~registered[d].given
        \/ registered[d].given /\ registered[c].priority < registered[d].priority
     /\ started[d] >= 1) => resolved[c] >= 1

\* the bootstraps begun so far: boilerplate is wired once in each
BootsBegun == factoryCalls[<<"boilerplate", "logger">>]

\* C37: a ShutdownStart or ShutdownComplete callback is invoked at most once
\* for each bootstrap, also when a teardown is triggered while an earlier one
\* still awaits its callbacks.
C37_ShutdownOncePerBoot ==
  \A c \in Callbacks :
    registered[c].stage \in {"ShutdownStart", "ShutdownComplete"} => started[c] <= BootsBegun

\* a bootstrap or a teardown is in flight, or an application is active
BootToTeardown ==
  \/ boot.app # "none"
  \/ ACTIVE_APPLICATION # "none"
  \/ \E t \in TdTasks : td[t].pc # "idle"

\* C39: from the start of a bootstrap to the end of the teardown that follows
\* it, completedLifecycleCallbacks holds the first stages of LIFECYCLE_STAGES
\* and no stage after a stage it does not hold.
C39_CompletedIsPrefix ==
  BootToTeardown =>
    \E n \in 0..Len(LIFECYCLE_STAGES) :
      completedLifecycleCallbacks = {LIFECYCLE_STAGES[i] : i \in 1..n}

\* C38: a sliding schedule never has more than one one-shot timer pending.
C38_OneTimerPending == \A s \in DOMAIN schedules : schedules[s].timers <= 1

\* a one-shot is pending, an exec of an earlier one is still in flight: a
\* one-shot was scheduled after another one
C38_Witness ==
  \E s \in DOMAIN schedules :
    /\ schedules[s].kind = "sliding"
    /\ schedules[s].timers = 1
    /\ schedules[s].inflight > 0

====
